---- MODULE Spec2Model ----
(***************************************************************************)
(* Recursive, length-bounded reduction of a list of documents              *)
(* (langchain/chains/combine_documents/reduce.py).                         *)
(*                                                                         *)
(* A Python str is a sequence of one-character strings.  An Optional[int]  *)
(* is a record [is_none, v].  A metadata value is tagged with its Python   *)
(* type, IntV(7) or StrV(<<"a">>) (one record shape for both), so that     *)
(* str() is a real conversion; the merged metadata values are "str"        *)
(* values.  A dict is a function on its key set.                           *)
(***************************************************************************)
EXTENDS Integers, Sequences, FiniteSets, Bags, TLC

\* ------------------------------------------------------------------ bounds
MaxDocs == 3          \* documents in the caller's list
MaxContentLen == 2    \* characters of an input document's page_content
MaxTokenMax == 3      \* largest token_max a caller passes
MaxRounds == 2        \* partition rounds followed by the recorded runs
MaxGroup == 3         \* documents in a group handed to the metadata merge
MaxOtherTaskWrites == 1  \* writes of other tasks to the caller's documents

\* ------------------------------------------------------- program constants
\* ReduceDocumentsChain.token_max: int = 3000
token_max_default == 3000

\* ------------------------------------------------------------ Python values
None == [is_none |-> TRUE, v |-> 0]
Some(n) == [is_none |-> FALSE, v |-> n]

IntV(n) == [t |-> "int", i |-> n, s |-> <<>>]
StrV(x) == [t |-> "str", i |-> 0, s |-> x]

Digits == <<"0", "1", "2", "3", "4", "5", "6", "7", "8", "9">>

RECURSIVE NatToStr(_)
NatToStr(n) ==
    IF n < 10 THEN <<Digits[n + 1]>>
    ELSE NatToStr(n \div 10) \o <<Digits[(n % 10) + 1]>>

\* Mutant: repr(v) for str(v): a str value is put in quotes.
str_repr(val) ==
    IF val.t = "int"
    THEN (IF val.i < 0 THEN <<"-">> \o NatToStr(0 - val.i) ELSE NatToStr(val.i))
    ELSE <<"'">> \o val.s \o <<"'">>

\* str(v), and the f"{v}" of the merge loop, for int and str values
str(val) ==
    IF val.t = "int"
    THEN (IF val.i < 0 THEN <<"-">> \o NatToStr(0 - val.i) ELSE NatToStr(val.i))
    ELSE val.s

RECURSIVE Rep(_, _)
Rep(c, n) == IF n = 0 THEN <<>> ELSE <<c>> \o Rep(c, n - 1)

Document(content, meta) == [page_content |-> content, metadata |-> meta]

EmptyMeta == [k \in {} |-> StrV(<<>>)]

\* ---------------------------------------------------------- length oracle
\* format_documents of combine_documents/base.py: the documents' contents
\* (DEFAULT_DOCUMENT_PROMPT is "{page_content}") joined by the separator.
RECURSIVE format_documents(_, _)
format_documents(ds, document_separator) ==
    IF Len(ds) = 0 THEN <<>>
    ELSE IF Len(ds) = 1 THEN ds[1].page_content
    ELSE ds[1].page_content \o document_separator
             \o format_documents(Tail(ds), document_separator)

\* The callables that count the tokens of a text are named: "len" is len,
\* "words" counts the words (len(text.split())), "twice" counts two tokens
\* per character; "None" stands for no callable.

\* The characters at which str.split() splits: the space, "\t", "\n", "\r",
\* "\f", then U+000B, U+001C to U+001F, U+0085, U+00A0 and U+1680 written as
\* themselves.  The whitespace from U+2000 on cannot be written in a string
\* here; no text of the runs holds it.
is_space(c) ==
    c \in {" ", "\t", "\n", "\r", "\f",
           "", "", "", "", "", "", " ", " "}

count_words(text) ==
    Cardinality({i \in 1..Len(text) :
                    /\ ~is_space(text[i])
                    /\ (i = 1 \/ is_space(text[i - 1]))})

\* token_len_func or getattr(llm, "get_num_tokens", len), line 111
_token_len_func(token_len_func, get_num_tokens) ==
    IF token_len_func # "None" THEN token_len_func
    ELSE IF get_num_tokens # "None" THEN get_num_tokens
    ELSE "len"

\* A call of the callable that _token_len_func names.
call_token_len_func(f, text) ==
    IF f = "words" THEN count_words(text)
    ELSE IF f = "twice" THEN 2 * Len(text)
    ELSE Len(text)

\* _docs_len, lines 189-195
_docs_len(ds, token_len_func, document_separator) ==
    Some(call_token_len_func(token_len_func,
                             format_documents(ds, document_separator)))

\* combine_documents_chain.prompt_length: the character count of the formatted
\* documents, or None for a chain that has no prompt length.
prompt_length(chain, ds) ==
    IF chain.has_length
    THEN Some(Len(format_documents(ds, chain.document_separator)))
    ELSE None

\* A length_func value is a descriptor of the callable that is passed around:
\*   [fn |-> "prompt_length", has_length, document_separator]   (legacy chain)
\*   [fn |-> "_docs_len", has_length |-> TRUE, document_separator] (pipeline)
\* both with the field token_len_func, the name of the _token_len_func of
\* line 111, which prompt_length does not use.
call_length_func(lf, ds) ==
    IF lf.fn = "prompt_length" THEN prompt_length(lf, ds)
    ELSE _docs_len(ds, lf.token_len_func, lf.document_separator)

\* ------------------------------------------------------------- partitioner
Ok(val) == [raised |-> "", value |-> val]
Raise(e) == [raised |-> e, value |-> <<>>]

\* Mutant: the overflow check closes the group without the len == 1 test.
RECURSIVE split_loop_noraise(_, _, _, _, _, _)
split_loop_noraise(ds, lf, tm, i, sub, acc) ==
    IF i > Len(ds) THEN Ok(Append(acc, sub))
    ELSE LET sub1 == Append(sub, ds[i])
             n == call_length_func(lf, sub1)
         IN  IF n.is_none THEN Raise("TypeError")
             ELSE IF n.v > tm
             THEN split_loop_noraise(ds, lf, tm, i + 1, <<sub1[Len(sub1)]>>,
                                     Append(acc, SubSeq(sub1, 1, Len(sub1) - 1)))
             ELSE split_loop_noraise(ds, lf, tm, i + 1, sub1, acc)

split_list_of_docs_noraise(ds, lf, tm) ==
    split_loop_noraise(ds, lf, tm, 1, <<>>, <<>>)

\* Mutant: the new accumulating group starts empty instead of holding the
\* document that overflowed ( _sub_result_docs = [] for [-1:] ).
RECURSIVE split_loop_drop(_, _, _, _, _, _)
split_loop_drop(ds, lf, tm, i, sub, acc) ==
    IF i > Len(ds) THEN Ok(Append(acc, sub))
    ELSE LET sub1 == Append(sub, ds[i])
             n == call_length_func(lf, sub1)
         IN  IF n.is_none THEN Raise("TypeError")
             ELSE IF n.v > tm
             THEN IF Len(sub1) = 1 THEN Raise("ValueError")
                  ELSE split_loop_drop(ds, lf, tm, i + 1, <<>>,
                                       Append(acc, SubSeq(sub1, 1, Len(sub1) - 1)))
             ELSE split_loop_drop(ds, lf, tm, i + 1, sub1, acc)

split_list_of_docs_drop(ds, lf, tm) ==
    split_loop_drop(ds, lf, tm, 1, <<>>, <<>>)

\* Mutant: a group is closed as soon as it reaches the budget (>= for >).
RECURSIVE split_loop_eager(_, _, _, _, _, _)
split_loop_eager(ds, lf, tm, i, sub, acc) ==
    IF i > Len(ds) THEN Ok(Append(acc, sub))
    ELSE LET sub1 == Append(sub, ds[i])
             n == call_length_func(lf, sub1)
         IN  IF n.is_none THEN Raise("TypeError")
             ELSE IF n.v >= tm
             THEN IF Len(sub1) = 1
                  THEN (IF n.v > tm THEN Raise("ValueError")
                        ELSE split_loop_eager(ds, lf, tm, i + 1, sub1, acc))
                  ELSE split_loop_eager(ds, lf, tm, i + 1, <<sub1[Len(sub1)]>>,
                                        Append(acc, SubSeq(sub1, 1, Len(sub1) - 1)))
             ELSE split_loop_eager(ds, lf, tm, i + 1, sub1, acc)

split_list_of_docs_eager(ds, lf, tm) ==
    split_loop_eager(ds, lf, tm, 1, <<>>, <<>>)

\* The for loop of split_list_of_docs, lines 236-246: i is the position of
\* the next doc, sub is _sub_result_docs, acc is new_result_doc_list.
\* Comparing None with token_max is Python's TypeError.
RECURSIVE split_loop(_, _, _, _, _, _)
split_loop(ds, lf, tm, i, sub, acc) ==
    IF i > Len(ds) THEN Ok(Append(acc, sub))
    ELSE LET sub1 == Append(sub, ds[i])
             n == call_length_func(lf, sub1)
         IN  IF n.is_none THEN Raise("TypeError")
             ELSE IF n.v > tm
             THEN IF Len(sub1) = 1 THEN Raise("ValueError")
                  ELSE split_loop(ds, lf, tm, i + 1, <<sub1[Len(sub1)]>>,
                                  Append(acc, SubSeq(sub1, 1, Len(sub1) - 1)))
             ELSE split_loop(ds, lf, tm, i + 1, sub1, acc)

\* Mutant: the last accumulating group is emitted only when it holds a
\* document, so an empty input gives no group.
split_list_of_docs_noempty(ds, lf, tm) ==
    IF Len(ds) = 0 THEN Ok(<<>>) ELSE split_loop(ds, lf, tm, 1, <<>>, <<>>)

\* Mutant: any document that is over the budget alone raises, whatever its
\* position.
split_list_of_docs_strict(ds, lf, tm) ==
    IF \E j \in 1..Len(ds) :
           LET n == call_length_func(lf, <<ds[j]>>)
           IN  (~n.is_none) /\ n.v > tm
    THEN Raise("ValueError")
    ELSE split_loop(ds, lf, tm, 1, <<>>, <<>>)

\* split_list_of_docs, lines 219-248
split_list_of_docs(ds, lf, tm) ==
    split_loop(ds, lf, tm, 1, <<>>, <<>>)

\* --------------------------------------------------------------- collapser
\* One document's items folded into the accumulator, lines 275-279: an
\* existing key gets ", " and the formatted value appended, a new key gets
\* the stringified value.  The keys of one dict are distinct, so the order
\* of its items does not matter.
collapse_docs_items(combined_metadata, metadata) ==
    [k \in (DOMAIN combined_metadata) \cup (DOMAIN metadata) |->
        IF k \in DOMAIN metadata
        THEN IF k \in DOMAIN combined_metadata
             THEN StrV(combined_metadata[k].s \o <<",", " ">> \o str(metadata[k]))
             ELSE StrV(str(metadata[k]))
        ELSE combined_metadata[k]]

\* for doc in docs[1:], line 274
RECURSIVE collapse_docs_loop(_, _, _)
collapse_docs_loop(ds, i, combined_metadata) ==
    IF i > Len(ds) THEN combined_metadata
    ELSE collapse_docs_loop(ds, i + 1,
                            collapse_docs_items(combined_metadata, ds[i].metadata))

\* Mutant: an overlapping key is overwritten by the later document's value.
collapse_docs_overwrite(ds, result) ==
    IF Len(ds) = 0 THEN Raise("IndexError")
    ELSE Ok(Document(result,
            [k \in UNION {DOMAIN ds[i].metadata : i \in 1..Len(ds)} |->
                LET last == CHOOSE i \in 1..Len(ds) :
                              /\ k \in DOMAIN ds[i].metadata
                              /\ \A j \in (i + 1)..Len(ds) : k \notin DOMAIN ds[j].metadata
                IN  StrV(str(ds[last].metadata[k]))]))

\* collapse_docs, lines 251-280; result is what combine_document_func
\* returned (line 272).  docs[0] of an empty list is Python's IndexError.
collapse_docs(ds, result) ==
    IF Len(ds) = 0 THEN Raise("IndexError")
    ELSE Ok(Document(result,
            collapse_docs_loop(ds, 2,
                [k \in DOMAIN ds[1].metadata |-> StrV(str(ds[1].metadata[k]))])))

\* lines 307-311
acollapse_docs_items(combined_metadata, metadata) ==
    [k \in (DOMAIN combined_metadata) \cup (DOMAIN metadata) |->
        IF k \in DOMAIN metadata
        THEN IF k \in DOMAIN combined_metadata
             THEN StrV(combined_metadata[k].s \o <<",", " ">> \o str(metadata[k]))
             ELSE StrV(str(metadata[k]))
        ELSE combined_metadata[k]]

\* for doc in docs[1:], line 306
RECURSIVE acollapse_docs_loop(_, _, _)
acollapse_docs_loop(ds, i, combined_metadata) ==
    IF i > Len(ds) THEN combined_metadata
    ELSE acollapse_docs_loop(ds, i + 1,
                             acollapse_docs_items(combined_metadata, ds[i].metadata))

\* Mutant: the merge loop of lines 306-311 is lost in the async function.
acollapse_docs_nomerge(ds, result) ==
    IF Len(ds) = 0 THEN Raise("IndexError")
    ELSE Ok(Document(result,
            [k \in DOMAIN ds[1].metadata |-> StrV(str(ds[1].metadata[k]))]))

\* acollapse_docs, lines 283-312
acollapse_docs(ds, result) ==
    IF Len(ds) = 0 THEN Raise("IndexError")
    ELSE Ok(Document(result,
            acollapse_docs_loop(ds, 2,
                [k \in DOMAIN ds[1].metadata |-> StrV(str(ds[1].metadata[k]))])))

\* lines 177-181
_combine_metadata_items(combined_metadata, metadata) ==
    [k \in (DOMAIN combined_metadata) \cup (DOMAIN metadata) |->
        IF k \in DOMAIN metadata
        THEN IF k \in DOMAIN combined_metadata
             THEN StrV(combined_metadata[k].s \o <<",", " ">> \o str(metadata[k]))
             ELSE StrV(str(metadata[k]))
        ELSE combined_metadata[k]]

\* for doc in docs[1:], line 176
RECURSIVE _combine_metadata_loop(_, _, _)
_combine_metadata_loop(ds, i, combined_metadata) ==
    IF i > Len(ds) THEN combined_metadata
    ELSE _combine_metadata_loop(ds, i + 1,
                                _combine_metadata_items(combined_metadata, ds[i].metadata))

\* Mutant: only the first document's metadata is kept (the loop is lost).
_combine_metadata_first(ds) ==
    IF Len(ds) = 0 THEN Raise("IndexError")
    ELSE Ok([k \in DOMAIN ds[1].metadata |-> StrV(str(ds[1].metadata[k]))])

\* _combine_metadata, lines 173-182, on inputs[DOCUMENTS_KEY]
_combine_metadata(ds) ==
    IF Len(ds) = 0 THEN Raise("IndexError")
    ELSE Ok(_combine_metadata_loop(ds, 2,
                [k \in DOMAIN ds[1].metadata |-> StrV(str(ds[1].metadata[k]))]))

\* _dict_to_document, lines 185-186
_dict_to_document(inputs) == Document(inputs.page_content, inputs.metadata)

\* ------------------------------------------------------ external capability
\* The combine capability (_collapse_chain.run, reduce_content, the final
\* combine_documents_chain.combine_docs): "any" answers at each call with
\* either string of Outputs, a short one and one as long as the longest
\* input; the other kinds are deterministic functions of the documents.
LLMKinds == {"echo", "first", "short"}

Outputs == {<<"s">>, Rep("s", MaxContentLen)}

llm_run(kind, ds, document_separator) ==
    IF kind = "echo" THEN format_documents(ds, document_separator)
    ELSE IF kind = "first" THEN (IF Len(ds) = 0 THEN <<>> ELSE ds[1].page_content)
    ELSE <<"s">>

llm_outputs(kind, ds, document_separator) ==
    IF kind = "any" THEN Outputs ELSE {llm_run(kind, ds, document_separator)}

\* The capability of kind "flaky" answers "s" or raises, at each call.
llm_raises(kind) == kind = "flaky"

\* ------------------------------------------------------------------- state
VARIABLES
    docs,                 \* the caller's list of documents
    token_max,            \* the token_max argument, an Optional[int]
    length_func,          \* the length function of the run (a descriptor)
    llm,                  \* the kind of the combine capability
    mode,                 \* "sync", "async", "pipeline", "both", or a pure call
    observe,              \* TRUE when the run keeps the logs and the counters
    pc,                   \* position of combine_docs / _collapse
    err,                  \* the exception that ended the legacy run, or ""
    result_docs,          \* _collapse: result_docs
    num_tokens,           \* _collapse: num_tokens
    _token_max,           \* _collapse: _token_max
    new_result_doc_list,  \* _collapse: new_result_doc_list
    new_doc,              \* result of the last pure collapse call
    rounds,               \* completed rounds of the legacy loop
    split_calls,          \* calls of split_list_of_docs by the legacy loop
    collapse_calls,       \* calls of the collapse capability by the legacy loop
    split_log,            \* the latest call of split_list_of_docs, if any
    collapse_log,         \* the groups collapsed in the latest round, in order
    combine_log,          \* calls of the final combine capability
    output,               \* what combine_docs returned
    p_pc,                 \* position of the collapse_documents_chain pipeline
    p_err,                \* the exception that ended the pipeline, or ""
    p_context,            \* inputs[DOCUMENTS_KEY] of the current collapse_loop
    p_partitions,         \* the partitions of the current round
    p_reduced,            \* reduce_docs.map(): per partition, how far it is
    p_rounds,             \* completed rounds of the pipeline
    p_collapse_calls,     \* invocations of reduce_docs by the pipeline
    p_split_log,          \* the latest call of split_list_of_docs, if any
    p_collapse_log,       \* bag of the groups reduced in the latest round
    p_output,             \* what the pipeline returned
    heap,                 \* the list, Document and dict objects
    r_docs,               \* _collapse: docs, a reference to the caller's list
    r_result_docs,        \* _collapse: result_docs, a reference to a list
    r_new_result_doc_list, \* _collapse: new_result_doc_list, by reference
    sync_run,             \* the frame of a run of combine_docs / _collapse
    other_task_wrote,     \* TRUE once another task wrote a caller's document
    invocations,          \* reduce_docs.map(): the invocations in flight
    map_output            \* reduce_docs.map(): the list returned, a reference

vars == <<docs, token_max, length_func, llm, mode, observe, pc, err,
          result_docs, num_tokens, _token_max, new_result_doc_list, new_doc,
          rounds, split_calls, collapse_calls, split_log, collapse_log,
          combine_log, output, p_pc, p_err, p_context, p_partitions, p_reduced,
          p_rounds, p_collapse_calls, p_split_log, p_collapse_log, p_output,
          heap, r_docs, r_result_docs, r_new_result_doc_list, sync_run,
          other_task_wrote, invocations, map_output>>

inputVars == <<docs, token_max, length_func, llm, mode, observe>>
legacyVars == <<pc, err, result_docs, num_tokens, _token_max,
                new_result_doc_list, new_doc, rounds, split_calls,
                collapse_calls, split_log, collapse_log, combine_log, output>>
pipeVars == <<p_pc, p_err, p_context, p_partitions, p_reduced, p_rounds,
              p_collapse_calls, p_split_log, p_collapse_log, p_output>>
refVars == <<heap, r_docs, r_result_docs, r_new_result_doc_list>>
taskVars == <<sync_run, other_task_wrote, invocations, map_output>>

\* ------------------------------------------------------------------ inputs
\* Input documents differ in the length of their content; each carries the
\* metadata key "source" with an int value.
InputDocs == {Document(Rep("a", n), ("source" :> IntV(n))) : n \in 1..MaxContentLen}

SeqsUpTo(S, n) == UNION {[1..k -> S] : k \in 0..n}

DocLists == SeqsUpTo(InputDocs, MaxDocs)

\* DEFAULT_DOCUMENT_SEPARATOR is "\n\n"; the empty separator is the smallest.
Separators == {<<>>, <<"\n", "\n">>}

PromptLengths ==
    {[fn |-> "prompt_length", has_length |-> h, document_separator |-> sep,
      token_len_func |-> "len"] :
        h \in BOOLEAN, sep \in Separators}

\* The token_len_func argument of create_collapse_documents_chain (None by
\* default) and the get_num_tokens of its llm, if it has one.
TokenLenFuncArgs == {"None", "twice"}
GetNumTokens == {"None", "words"}

DocsLens ==
    {[fn |-> "_docs_len", has_length |-> TRUE, document_separator |-> sep,
      token_len_func |-> _token_len_func(arg, gnt)] :
        sep \in Separators, arg \in TokenLenFuncArgs, gnt \in GetNumTokens}

TokenMaxArgs == {None} \cup {Some(n) : n \in 1..MaxTokenMax}

Keys == {"source", "page"}
MetaValues == {IntV(12), IntV(0 - 3), StrV(<<"x">>)}
Metas == UNION {[K -> MetaValues] : K \in SUBSET Keys}
MetaDocs == {Document(<<"a">>, m) : m \in Metas}


InitLegacyVars ==
    /\ pc = "call"
    /\ err = ""
    /\ result_docs = <<>>
    /\ num_tokens = None
    /\ _token_max = 0
    /\ new_result_doc_list = <<>>
    /\ new_doc = Raise("")
    /\ rounds = 0
    /\ split_calls = 0
    /\ collapse_calls = 0
    /\ split_log = <<>>
    /\ collapse_log = <<>>
    /\ combine_log = <<>>
    /\ output = <<>>

InitPipeVars ==
    /\ p_pc = "call"
    /\ p_err = ""
    /\ p_context = <<>>
    /\ p_partitions = <<>>
    /\ p_reduced = <<>>
    /\ p_rounds = 0
    /\ p_collapse_calls = 0
    /\ p_split_log = <<>>
    /\ p_collapse_log = EmptyBag
    /\ p_output = <<>>

\* The runs on values hold no reference.
InitRefVars ==
    /\ heap = [lists |-> <<>>, docs |-> <<>>, dicts |-> <<>>]
    /\ r_docs = 0
    /\ r_result_docs = 0
    /\ r_new_result_doc_list = <<>>

\* No second run of combine_docs, no other task and no map() in flight.

InitTaskVars ==
    /\ sync_run = [pc |-> "none"]
    /\ other_task_wrote = FALSE
    /\ invocations = <<>>
    /\ map_output = 0

\* ------------------------------------------------- legacy chain: _collapse
\* token_max or self.token_max, lines 482 and 510: None and 0 are falsy
token_max_or(tm, self_token_max) ==
    IF tm.is_none \/ tm.v = 0 THEN self_token_max ELSE tm.v

\* Mutant: the loop also runs when the cost equals the budget.
while_cond_ge(n, tm) == (~n.is_none) /\ n.v >= tm

\* Mutant: the loop stops one token too early.
while_cond_late(n, tm) == (~n.is_none) /\ n.v > tm + 1

\* num_tokens is not None and num_tokens > _token_max, lines 483 and 511
while_cond(n, tm) == (~n.is_none) /\ n.v > tm

\* The logs and the counters are kept by the observed runs only.  A log
\* holds the latest round: the latest call of split_list_of_docs and the
\* groups collapsed since.
Logged(log, entry) == IF observe THEN Append(log, entry) ELSE log
Latest(log, entry) == IF observe THEN <<entry>> ELSE log
Cleared(log, empty) == IF observe THEN empty ELSE log
Counted(n) == IF observe THEN n + 1 ELSE n

\* The forms that run the legacy loop.
LegacyMode == mode \in {"sync", "async", "both"}

\* The body of _collapse / _acollapse up to the loop, lines 473-482 and
\* 501-510, entered from combine_docs line 430 / acombine_docs line 459.
CollapseEnter ==
    /\ pc = "call"
    /\ LegacyMode
    /\ result_docs' = docs
    /\ num_tokens' = call_length_func(length_func, docs)
    /\ _token_max' = token_max_or(token_max, token_max_default)
    /\ pc' = "while"
    /\ UNCHANGED <<err, new_result_doc_list, new_doc, rounds, split_calls,
                   collapse_calls, split_log, collapse_log, combine_log,
                   output, inputVars, pipeVars, refVars, taskVars>>

\* The loop test succeeds and the round is partitioned, lines 483-487 and
\* 511-515; the ValueError of split_list_of_docs leaves _collapse.
CollapseSplit ==
    /\ pc = "while"
    /\ LegacyMode
    /\ while_cond(num_tokens, _token_max)
    /\ observe => rounds < MaxRounds
    /\ LET r == split_list_of_docs(result_docs, length_func, _token_max)
       IN  /\ split_log' = Latest(split_log, [docs |-> result_docs,
                                              raised |-> r.raised,
                                              groups |-> r.value])
           /\ IF r.raised # ""
              THEN /\ pc' = "error"
                   /\ err' = r.raised
                   /\ UNCHANGED <<result_docs, new_result_doc_list>>
              ELSE /\ pc' = "for"
                   /\ new_result_doc_list' = r.value
                   /\ result_docs' = <<>>
                   /\ UNCHANGED err
    /\ split_calls' = Counted(split_calls)
    /\ collapse_log' = Cleared(collapse_log, <<>>)
    /\ UNCHANGED <<num_tokens, _token_max, new_doc, rounds, collapse_calls,
                   combine_log, output, inputVars, pipeVars, refVars, taskVars>>

\* Mutant: a group of one document is passed on as it is, without the
\* collapse of its content and metadata.
CollapseForBody_skip(g, out) ==
    LET r == IF Len(g) = 1 THEN Ok(g[1]) ELSE collapse_docs(g, out)
    IN  IF r.raised # ""
        THEN pc' = "error" /\ err' = r.raised /\ UNCHANGED result_docs
        ELSE /\ result_docs' = Append(result_docs, r.value)
             /\ pc' = "for"
             /\ UNCHANGED err

\* One iteration of for docs in new_result_doc_list, lines 488-490: the
\* collapse capability has answered out for the group g.
CollapseForBody(g, out) ==
    LET r == collapse_docs(g, out)
    IN  IF r.raised # ""
        THEN pc' = "error" /\ err' = r.raised /\ UNCHANGED result_docs
        ELSE /\ result_docs' = Append(result_docs, r.value)
             /\ pc' = "for"
             /\ UNCHANGED err

\* The rest of an iteration of the loop of _acollapse once the await of
\* line 304 has returned out: lines 305-312 and 518.
ACollapseForBody(g, out) ==
    LET r == acollapse_docs(g, out)
    IN  IF r.raised # ""
        THEN pc' = "error" /\ err' = r.raised /\ UNCHANGED result_docs
        ELSE /\ result_docs' = Append(result_docs, r.value)
             /\ pc' = "for"
             /\ UNCHANGED err

\* The next group of the round is collapsed (_collapse lines 488-490); the
\* position in the list is the number of documents collected so far.
CollapseFor ==
    /\ pc = "for"
    /\ mode \in {"sync", "both"}
    /\ Len(result_docs) < Len(new_result_doc_list)
    /\ LET g == new_result_doc_list[Len(result_docs) + 1]
       IN  /\ \E out \in llm_outputs(llm, g, length_func.document_separator) :
                 CollapseForBody(g, out)
           /\ collapse_log' = Logged(collapse_log, g)
    /\ collapse_calls' = Counted(collapse_calls)
    /\ UNCHANGED <<num_tokens, _token_max, new_result_doc_list, new_doc,
                   rounds, split_calls, split_log, combine_log, output,
                   inputVars, pipeVars, refVars, taskVars>>

\* _acollapse starts the collapse of the next group, lines 516-517: the
\* capability is invoked with the group (line 304) and the task is
\* suspended at its await; other tasks run until it is resumed.
ACollapseCall ==
    /\ pc = "for"
    /\ mode = "async"
    /\ Len(result_docs) < Len(new_result_doc_list)
    /\ collapse_log' = Logged(collapse_log,
                              new_result_doc_list[Len(result_docs) + 1])
    /\ collapse_calls' = Counted(collapse_calls)
    /\ pc' = "await"
    /\ UNCHANGED <<err, result_docs, num_tokens, _token_max,
                   new_result_doc_list, new_doc, rounds, split_calls,
                   split_log, combine_log, output, inputVars, pipeVars,
                   refVars, taskVars>>

\* The values another task may store in the metadata of a document, and
\* the contents it may give it.
OtherTaskValues == {IntV(9)}
OtherTaskContents == {Rep("a", MaxContentLen)}

\* What a document may be after another task has written one of its
\* metadata values or its page_content.
other_task_written(doc) ==
    ({[doc EXCEPT !.metadata[k] = val] :
          k \in DOMAIN doc.metadata, val \in OtherTaskValues}
     \cup {[doc EXCEPT !.page_content = c] : c \in OtherTaskContents})
    \ {doc}

\* The fields of the caller's documents that other tasks have written so
\* far: the documents as they are now against the documents as passed.
written_fields(passed, now) ==
    {f \in (1..Len(passed)) \X (Keys \cup {"page_content"}) :
        IF f[2] = "page_content"
        THEN now[f[1]].page_content # passed[f[1]].page_content
        ELSE /\ f[2] \in DOMAIN passed[f[1]].metadata
             /\ now[f[1]].metadata[f[2]] # passed[f[1]].metadata[f[2]]}

\* Other tasks write at most MaxOtherTaskWrites times during one run.
other_task_may_write(passed, now) ==
    Cardinality(written_fields(passed, now)) < MaxOtherTaskWrites

\* The documents of the groups of a round, in the order of the list that
\* was split.
RECURSIVE docs_of_groups(_)
docs_of_groups(groups) ==
    IF groups = <<>> THEN <<>>
    ELSE Head(groups) \o docs_of_groups(Tail(groups))

\* While _acollapse is suspended at the await of line 304, another task
\* writes a document of the caller.  In the first round every group holds
\* the caller's Document objects, so the write shows in the group; the
\* later rounds hold documents that _acollapse made itself, which no other
\* task can reach.
OtherTaskWrites ==
    /\ pc = "await"
    /\ mode = "async"
    /\ observe
    /\ rounds = 0
    /\ other_task_may_write(docs, docs_of_groups(new_result_doc_list))
    /\ \E gi \in 1..Len(new_result_doc_list) :
       \E j \in 1..Len(new_result_doc_list[gi]) :
       \E d \in other_task_written(new_result_doc_list[gi][j]) :
           new_result_doc_list' = [new_result_doc_list EXCEPT ![gi][j] = d]
    /\ other_task_wrote' = TRUE
    /\ UNCHANGED <<inputVars, pc, err, result_docs, num_tokens, _token_max,
                   new_doc, rounds, split_calls, collapse_calls, split_log,
                   collapse_log, combine_log, output, pipeVars, refVars,
                   sync_run, invocations, map_output>>

\* The answers that the capability may give for a call: it reads the
\* documents when it is called or when it answers.
llm_answers(kind, called_with, now, document_separator) ==
    llm_outputs(kind, called_with, document_separator)
        \cup llm_outputs(kind, now, document_separator)

\* The await of line 304 returns the capability's answer: the metadata of
\* the group is merged as it is now (lines 305-311) and the new document is
\* appended (lines 312, 518).
ACollapseFor ==
    /\ pc = "await"
    /\ mode = "async"
    /\ LET g == new_result_doc_list[Len(result_docs) + 1]
           called_with == IF observe THEN collapse_log[Len(collapse_log)]
                          ELSE g
       IN  \E out \in llm_answers(llm, called_with, g,
                                  length_func.document_separator) :
               ACollapseForBody(g, out)
    /\ UNCHANGED <<num_tokens, _token_max, new_result_doc_list, new_doc,
                   rounds, split_calls, collapse_calls, split_log,
                   collapse_log, combine_log, output, inputVars, pipeVars,
                   refVars, taskVars>>

\* Mutant: a failed collapse call is swallowed and the group is tried again.
CollapseForRaises_retry ==
    /\ pc = "for"
    /\ mode \in {"sync", "both"}
    /\ llm_raises(llm)
    /\ Len(result_docs) < Len(new_result_doc_list)
    /\ Len(collapse_log) <= Len(result_docs)
    /\ collapse_log' = Logged(collapse_log,
                              new_result_doc_list[Len(result_docs) + 1])
    /\ collapse_calls' = Counted(collapse_calls)
    /\ UNCHANGED <<pc, err, result_docs, num_tokens, _token_max,
                   new_result_doc_list, new_doc, rounds, split_calls,
                   split_log, combine_log, output, inputVars, pipeVars,
                   refVars, taskVars>>

\* combine_document_func raises inside collapse_docs (line 272): nothing
\* catches it, so it leaves collapse_docs, the for loop of lines 488-490,
\* _collapse and combine_docs (line 430).
CollapseForRaises ==
    /\ pc = "for"
    /\ mode \in {"sync", "both"}
    /\ llm_raises(llm)
    /\ Len(result_docs) < Len(new_result_doc_list)
    /\ collapse_log' = Logged(collapse_log,
                              new_result_doc_list[Len(result_docs) + 1])
    /\ collapse_calls' = Counted(collapse_calls)
    /\ pc' = "error"
    /\ err' = "CombineError"
    /\ UNCHANGED <<result_docs, num_tokens, _token_max, new_result_doc_list,
                   new_doc, rounds, split_calls, split_log, combine_log,
                   output, inputVars, pipeVars, refVars, taskVars>>

\* The await of line 304 raises when the task is resumed: the exception
\* leaves acollapse_docs, _acollapse (lines 516-518) and acombine_docs
\* (line 459).
ACollapseForRaises ==
    /\ pc = "await"
    /\ mode = "async"
    /\ llm_raises(llm)
    /\ pc' = "error"
    /\ err' = "CombineError"
    /\ UNCHANGED <<result_docs, num_tokens, _token_max, new_result_doc_list,
                   new_doc, rounds, split_calls, collapse_calls, split_log,
                   collapse_log, combine_log, output, inputVars, pipeVars,
                   refVars, taskVars>>

\* Mutant: the list is measured as soon as one group is collapsed, the
\* rest of the round is dropped.
CollapseMeasure_early ==
    /\ pc = "for"
    /\ LegacyMode
    /\ Len(result_docs) >= 1
    /\ num_tokens' = call_length_func(length_func, result_docs)
    /\ rounds' = Counted(rounds)
    /\ pc' = "while"
    /\ UNCHANGED <<err, result_docs, _token_max, new_result_doc_list, new_doc,
                   split_calls, collapse_calls, split_log, collapse_log,
                   combine_log, output, inputVars, pipeVars, refVars, taskVars>>

\* The round's list is measured again, lines 491 and 519.
CollapseMeasure ==
    /\ pc = "for"
    /\ LegacyMode
    /\ Len(result_docs) = Len(new_result_doc_list)
    /\ num_tokens' = call_length_func(length_func, result_docs)
    /\ rounds' = Counted(rounds)
    /\ pc' = "while"
    /\ UNCHANGED <<err, result_docs, _token_max, new_result_doc_list, new_doc,
                   split_calls, collapse_calls, split_log, collapse_log,
                   combine_log, output, inputVars, pipeVars, refVars, taskVars>>

\* The loop test fails and _collapse returns result_docs, lines 483, 492 and
\* 511, 520.
CollapseReturn ==
    /\ pc = "while"
    /\ LegacyMode
    /\ ~while_cond(num_tokens, _token_max)
    /\ pc' = "collapsed"
    /\ UNCHANGED <<err, result_docs, num_tokens, _token_max,
                   new_result_doc_list, new_doc, rounds, split_calls,
                   collapse_calls, split_log, collapse_log, combine_log,
                   output, inputVars, pipeVars, refVars, taskVars>>

\* Mutant: the final combine is given the caller's list.
final_docs_input(input_docs, collapsed) == input_docs

\* docs=result_docs of lines 433-435 and 462-464
final_docs(input_docs, collapsed) == collapsed

\* combine_docs hands the collapsed list to the final combine capability
\* and returns its answer, lines 433-435.
FinalCombine ==
    /\ pc = "collapsed"
    /\ mode = "sync"
    /\ LET arg == final_docs(docs, result_docs)
       IN  \E out \in llm_outputs(llm, arg, length_func.document_separator) :
               /\ output' = out
               /\ combine_log' = Logged(combine_log,
                                        [docs |-> arg, returned |-> out,
                                         after |-> collapse_calls])
    /\ pc' = "done"
    /\ UNCHANGED <<err, result_docs, num_tokens, _token_max,
                   new_result_doc_list, new_doc, rounds, split_calls,
                   collapse_calls, split_log, collapse_log, inputVars,
                   pipeVars, refVars, taskVars>>

\* The final combine capability raises (lines 433-435): the exception
\* leaves combine_docs.
FinalCombineRaises ==
    /\ pc = "collapsed"
    /\ mode = "sync"
    /\ llm_raises(llm)
    /\ combine_log' = Logged(combine_log,
                             [docs |-> final_docs(docs, result_docs),
                              returned |-> <<>>,
                              after |-> collapse_calls])
    /\ pc' = "error"
    /\ err' = "CombineError"
    /\ UNCHANGED <<result_docs, num_tokens, _token_max, new_result_doc_list,
                   new_doc, rounds, split_calls, collapse_calls, split_log,
                   collapse_log, output, inputVars, pipeVars, refVars,
                   taskVars>>

\* acombine_docs invokes the final combine capability with the collapsed
\* list (lines 462-464) and is suspended at the await of line 462; other
\* tasks run until it is resumed.
AFinalCombineCall ==
    /\ pc = "collapsed"
    /\ mode = "async"
    /\ combine_log' = Logged(combine_log,
                             [docs |-> final_docs(docs, result_docs),
                              returned |-> <<>>,
                              after |-> collapse_calls])
    /\ pc' = "final_await"
    /\ UNCHANGED <<err, result_docs, num_tokens, _token_max,
                   new_result_doc_list, new_doc, rounds, split_calls,
                   collapse_calls, split_log, collapse_log, output, inputVars,
                   pipeVars, refVars, taskVars>>

\* While acombine_docs is suspended at the await of line 462, another task
\* writes a document of the caller: result_docs holds the caller's Document
\* objects when no round was run.
OtherTaskWritesFinal ==
    /\ pc = "final_await"
    /\ mode = "async"
    /\ observe
    /\ rounds = 0
    /\ other_task_may_write(docs, result_docs)
    /\ \E i \in 1..Len(result_docs) :
       \E d \in other_task_written(result_docs[i]) :
           result_docs' = [result_docs EXCEPT ![i] = d]
    /\ other_task_wrote' = TRUE
    /\ UNCHANGED <<inputVars, pc, err, num_tokens, _token_max,
                   new_result_doc_list, new_doc, rounds, split_calls,
                   collapse_calls, split_log, collapse_log, combine_log,
                   output, pipeVars, refVars, sync_run, invocations,
                   map_output>>

\* The await of line 462 returns the capability's answer, which
\* acombine_docs returns.
AFinalCombine ==
    /\ pc = "final_await"
    /\ mode = "async"
    /\ LET now == final_docs(docs, result_docs)
           called_with == IF observe THEN combine_log[Len(combine_log)].docs
                          ELSE now
       IN  \E out \in llm_answers(llm, called_with, now,
                                  length_func.document_separator) :
               /\ output' = out
               /\ combine_log' =
                     IF observe
                     THEN [combine_log EXCEPT ![Len(combine_log)].returned = out]
                     ELSE combine_log
    /\ pc' = "done"
    /\ UNCHANGED <<err, result_docs, num_tokens, _token_max,
                   new_result_doc_list, new_doc, rounds, split_calls,
                   collapse_calls, split_log, collapse_log, inputVars,
                   pipeVars, refVars, taskVars>>

\* The await of line 462 raises when acombine_docs is resumed.
AFinalCombineRaises ==
    /\ pc = "final_await"
    /\ mode = "async"
    /\ llm_raises(llm)
    /\ pc' = "error"
    /\ err' = "CombineError"
    /\ UNCHANGED <<result_docs, num_tokens, _token_max, new_result_doc_list,
                   new_doc, rounds, split_calls, collapse_calls, split_log,
                   collapse_log, combine_log, output, inputVars, pipeVars,
                   refVars, taskVars>>

\* --------------------------------- pipeline: create_collapse_documents_chain
\* The pipeline measures with _docs_len and the chain's separator.
p_length_func ==
    [fn |-> "_docs_len", has_length |-> TRUE,
     document_separator |-> length_func.document_separator,
     token_len_func |-> length_func.token_len_func]

PipeMode == mode \in {"pipeline", "both"}

\* The chain is invoked with {"context": docs, ...}, lines 163-167.
PipeInvoke ==
    /\ p_pc = "call"
    /\ PipeMode
    /\ p_context' = docs
    /\ p_pc' = "collapse_loop"
    /\ UNCHANGED <<p_err, p_partitions, p_reduced, p_rounds, p_collapse_calls,
                   p_split_log, p_collapse_log, p_output, inputVars,
                   legacyVars, refVars, taskVars>>

\* collapse_loop over budget, lines 152-159: another partition and reduce
\* step is piped in front of collapse_loop.
CollapseLoopStep ==
    /\ p_pc = "collapse_loop"
    /\ PipeMode
    /\ _docs_len(p_context, length_func.token_len_func,
                length_func.document_separator).v > token_max.v
    /\ observe => p_rounds < MaxRounds
    /\ p_pc' = "partition_docs"
    /\ UNCHANGED <<p_err, p_context, p_partitions, p_reduced, p_rounds,
                   p_collapse_calls, p_split_log, p_collapse_log, p_output,
                   inputVars, legacyVars, refVars, taskVars>>

\* collapse_loop within budget, lines 152-156 and 160-161: the docs are the
\* chain's result.
CollapseLoopReturn ==
    /\ p_pc = "collapse_loop"
    /\ PipeMode
    /\ ~(_docs_len(p_context, length_func.token_len_func,
                length_func.document_separator).v > token_max.v)
    /\ p_output' = p_context
    /\ p_pc' = "returned"
    /\ UNCHANGED <<p_err, p_context, p_partitions, p_reduced, p_rounds,
                   p_collapse_calls, p_split_log, p_collapse_log, inputVars,
                   legacyVars, refVars, taskVars>>

\* partition_docs, lines 129-139
PartitionDocs ==
    /\ p_pc = "partition_docs"
    /\ LET r == split_list_of_docs(p_context, p_length_func, token_max.v)
       IN  /\ p_split_log' = Latest(p_split_log, [docs |-> p_context,
                                                  raised |-> r.raised,
                                                  groups |-> r.value])
           /\ IF r.raised # ""
              THEN /\ p_pc' = "error"
                   /\ p_err' = r.raised
                   /\ UNCHANGED <<p_partitions, p_reduced>>
              ELSE /\ p_pc' = "map"
                   /\ p_partitions' = r.value
                   /\ p_reduced' = [i \in 1..Len(r.value) |->
                                       [called |-> FALSE, done |-> FALSE,
                                        doc |-> Document(<<>>, EmptyMeta)]]
                   /\ UNCHANGED p_err
    /\ p_collapse_log' = Cleared(p_collapse_log, EmptyBag)
    /\ UNCHANGED <<p_context, p_rounds, p_collapse_calls, p_output, inputVars,
                   legacyVars, refVars, taskVars>>

\* reduce_docs.map() (line 142) runs an invocation of reduce_docs per
\* partition, the invocations side by side.  reduce_content of one of them
\* (lines 114-121) formats its documents and calls the capability; the
\* invocation then waits for the answer while the others go on.
ReduceDocsCall ==
    /\ p_pc = "map"
    /\ \E i \in 1..Len(p_partitions) :
         /\ ~p_reduced[i].called
         /\ p_collapse_log' = IF observe
                              THEN p_collapse_log (+) SetToBag({p_partitions[i]})
                              ELSE p_collapse_log
         /\ p_reduced' = [p_reduced EXCEPT ![i].called = TRUE]
    /\ p_collapse_calls' = Counted(p_collapse_calls)
    /\ UNCHANGED <<p_pc, p_err, p_context, p_partitions, p_rounds, p_split_log,
                   p_output, inputVars, legacyVars, refVars, taskVars>>

\* The capability answers an invocation of reduce_docs, lines 121-127: the
\* answer is the page_content, _combine_metadata gives the metadata and
\* _dict_to_document the Document of the partition.
ReduceDocs ==
    /\ p_pc = "map"
    /\ \E i \in 1..Len(p_partitions) :
         /\ p_reduced[i].called
         /\ ~p_reduced[i].done
         /\ LET g == p_partitions[i]
                md == _combine_metadata(g)
            IN  \E out \in llm_outputs(llm, g, length_func.document_separator) :
                     IF md.raised # ""
                     THEN /\ p_pc' = "error"
                          /\ p_err' = md.raised
                          /\ UNCHANGED p_reduced
                     ELSE /\ p_reduced' =
                               [p_reduced EXCEPT ![i] =
                                   [called |-> TRUE, done |-> TRUE,
                                    doc |-> _dict_to_document(
                                               [page_content |-> out,
                                                metadata |-> md.value])]]
                          /\ UNCHANGED <<p_pc, p_err>>
    /\ UNCHANGED <<p_context, p_partitions, p_rounds, p_collapse_calls,
                   p_split_log, p_collapse_log, p_output, inputVars,
                   legacyVars, refVars, taskVars>>

\* RunnablePassthrough.assign(context=partition_and_reduce), line 157: when
\* every partition is reduced the list of results becomes the context of the
\* next collapse_loop.
AssignContext ==
    /\ p_pc = "map"
    /\ \A i \in 1..Len(p_partitions) : p_reduced[i].done
    /\ p_context' = [i \in 1..Len(p_partitions) |-> p_reduced[i].doc]
    /\ p_rounds' = Counted(p_rounds)
    /\ p_pc' = "collapse_loop"
    /\ UNCHANGED <<p_err, p_partitions, p_reduced, p_collapse_calls,
                   p_split_log, p_collapse_log, p_output, inputVars,
                   legacyVars, refVars, taskVars>>

\* ---------------------------------------------------------- pure-call steps
\* split_list_of_docs applied to the drawn input
SplitCall ==
    /\ pc = "split_call"
    /\ LET r == split_list_of_docs(docs, length_func, _token_max)
       IN  /\ new_result_doc_list' = r.value
           /\ err' = r.raised
    /\ pc' = "split_return"
    /\ UNCHANGED <<inputVars, result_docs, num_tokens, _token_max, new_doc,
                   rounds, split_calls, collapse_calls, split_log,
                   collapse_log, combine_log, output, pipeVars, refVars,
                   taskVars>>

\* collapse_docs applied to the drawn group
CollapseDocsCall ==
    /\ pc = "meta_call"
    /\ mode = "collapse_docs"
    /\ \E out \in llm_outputs(llm, docs, <<>>) : new_doc' = collapse_docs(docs, out)
    /\ pc' = "meta_return"
    /\ UNCHANGED <<inputVars, err, result_docs, num_tokens, _token_max,
                   new_result_doc_list, rounds, split_calls, collapse_calls,
                   split_log, collapse_log, combine_log, output, pipeVars,
                   refVars, taskVars>>

\* acollapse_docs is called with the drawn group: the capability is
\* invoked and the task is suspended at the await of line 304.
ACollapseDocsCall ==
    /\ pc = "meta_call"
    /\ mode = "acollapse_docs"
    /\ pc' = "meta_await"
    /\ UNCHANGED <<inputVars, err, result_docs, num_tokens, _token_max,
                   new_result_doc_list, new_doc, rounds, split_calls,
                   collapse_calls, split_log, collapse_log, combine_log,
                   output, pipeVars, refVars, taskVars>>

\* While acollapse_docs is suspended at the await of line 304, another
\* task stores a value in the metadata of a document of the group.
OtherTaskWritesArg ==
    /\ pc = "meta_await"
    /\ mode = "acollapse_docs"
    /\ \E j \in 1..Len(docs) :
       \E k \in DOMAIN docs[j].metadata :
       \E val \in MetaValues :
           /\ docs[j].metadata[k] # val
           /\ docs' = [docs EXCEPT ![j].metadata[k] = val]
    /\ UNCHANGED <<token_max, length_func, llm, mode, observe, legacyVars,
                   pipeVars, refVars, taskVars>>

\* The await of line 304 returns the capability's answer; lines 305-312
\* merge the metadata of the group as it is now.
ACollapseDocsReturn ==
    /\ pc = "meta_await"
    /\ mode = "acollapse_docs"
    /\ \E out \in llm_outputs(llm, docs, <<>>) : new_doc' = acollapse_docs(docs, out)
    /\ pc' = "meta_return"
    /\ UNCHANGED <<inputVars, err, result_docs, num_tokens, _token_max,
                   new_result_doc_list, rounds, split_calls, collapse_calls,
                   split_log, collapse_log, combine_log, output, pipeVars,
                   refVars, taskVars>>

\* reduce_docs (_combine_metadata, then _dict_to_document) applied to the
\* drawn group
CombineMetadataCall ==
    /\ pc = "meta_call"
    /\ mode = "_combine_metadata"
    /\ \E out \in llm_outputs(llm, docs, <<>>) :
         LET md == _combine_metadata(docs)
         IN  new_doc' = IF md.raised # "" THEN Raise(md.raised)
                        ELSE Ok(_dict_to_document([page_content |-> out,
                                                   metadata |-> md.value]))
    /\ pc' = "meta_return"
    /\ UNCHANGED <<inputVars, err, result_docs, num_tokens, _token_max,
                   new_result_doc_list, rounds, split_calls, collapse_calls,
                   split_log, collapse_log, combine_log, output, pipeVars,
                   refVars, taskVars>>

\* ------------------------------------------- references: lists and documents
\* Python passes lists and documents by reference.  The heap holds the list
\* objects (each a sequence of document references), the Document objects
\* (each its page_content and the reference of its metadata dict) and the
\* dicts; a reference is the position of its object in the heap.

\* The heap of a caller that holds one list of documents, each document
\* with a metadata dict of its own: the argument docs of line 468 / 496.
heap_of_caller(ds) ==
    [lists |-> << [i \in 1..Len(ds) |-> i] >>,
     docs  |-> [i \in 1..Len(ds) |->
                   [page_content |-> ds[i].page_content, metadata |-> i]],
     dicts |-> [i \in 1..Len(ds) |-> ds[i].metadata]]

\* The value of the document behind a reference, and of a list of them.
deref_doc(h, d) ==
    Document(h.docs[d].page_content, h.dicts[h.docs[d].metadata])
deref_docs(h, refs) == [i \in 1..Len(refs) |-> deref_doc(h, refs[i])]
deref_list(h, l) == deref_docs(h, h.lists[l])

\* split_list_of_docs on a list object, lines 219-248: the documents are
\* read and appended, by reference, to lists made inside (lines 234, 235,
\* 245, 246); the list given is only iterated (line 236).
ref_split_list_of_docs(h, l, lf, tm) ==
    LET refs == h.lists[l]
        boxed == [i \in 1..Len(refs) |->
                     [page_content |-> deref_doc(h, refs[i]).page_content,
                      metadata |-> deref_doc(h, refs[i]).metadata,
                      ref |-> refs[i]]]
        r == split_list_of_docs(boxed, lf, tm)
    IN  IF r.raised # "" THEN Raise(r.raised)
        ELSE Ok([g \in 1..Len(r.value) |->
                    [j \in 1..Len(r.value[g]) |-> r.value[g][j].ref]])

\* Mutant: the round empties the list it was given, in place, as
\* result_docs.clear() would.
clear_list(h, old) ==
    [heap |-> [h EXCEPT !.lists[old] = <<>>], ref |-> old]

\* result_docs = [] of lines 487 and 515: a new list object; the list that
\* result_docs named before is left as it is.
new_list(h, old) ==
    [heap |-> [h EXCEPT !.lists = Append(@, <<>>)], ref |-> Len(h.lists) + 1]

\* result_docs.append(new_doc), lines 489 and 517
list_append(h, l, d) == [h EXCEPT !.lists[l] = Append(@, d)]

\* The Document that collapse_docs / acollapse_docs returns, lines 273-280
\* and 305-312: a new dict (the comprehension of line 273) and a new
\* Document object (line 280).
new_document(h, doc) ==
    [heap |-> [h EXCEPT !.dicts = Append(@, doc.metadata),
                        !.docs = Append(@, [page_content |-> doc.page_content,
                                            metadata |-> Len(h.dicts) + 1])],
     ref |-> Len(h.docs) + 1]

\* _collapse / _acollapse called with a reference to the caller's list.
RefMode == mode \in {"ref_sync", "ref_async"}

\* Lines 473-482 and 501-510: result_docs names the caller's list.
RefCollapseEnter ==
    /\ pc = "call"
    /\ RefMode
    /\ r_result_docs' = r_docs
    /\ num_tokens' = call_length_func(length_func, deref_list(heap, r_docs))
    /\ _token_max' = token_max_or(token_max, token_max_default)
    /\ pc' = "while"
    /\ UNCHANGED <<err, result_docs, new_result_doc_list, new_doc, rounds,
                   split_calls, collapse_calls, split_log, collapse_log,
                   combine_log, output, heap, r_docs, r_new_result_doc_list,
                   inputVars, pipeVars, taskVars>>

\* Lines 483-487 and 511-515: the list that result_docs names is
\* partitioned, then result_docs is bound to a new list.
RefCollapseSplit ==
    /\ pc = "while"
    /\ RefMode
    /\ while_cond(num_tokens, _token_max)
    /\ rounds < MaxRounds
    /\ LET r == ref_split_list_of_docs(heap, r_result_docs, length_func,
                                       _token_max)
           a == new_list(heap, r_result_docs)
       IN  IF r.raised # ""
           THEN /\ pc' = "error"
                /\ err' = r.raised
                /\ UNCHANGED <<heap, r_result_docs, r_new_result_doc_list>>
           ELSE /\ pc' = "for"
                /\ r_new_result_doc_list' = r.value
                /\ heap' = a.heap
                /\ r_result_docs' = a.ref
                /\ UNCHANGED err
    /\ UNCHANGED <<result_docs, num_tokens, _token_max, new_result_doc_list,
                   new_doc, rounds, split_calls, collapse_calls, split_log,
                   collapse_log, combine_log, output, r_docs, inputVars,
                   pipeVars, taskVars>>

\* The documents of the group that the loop collapses next.
ref_next_group(h, l, groups) == deref_docs(h, groups[Len(h.lists[l]) + 1])

\* Lines 488-490: the next group is collapsed into a new Document, which
\* is appended to the list that result_docs names.
RefCollapseFor ==
    /\ pc = "for"
    /\ mode = "ref_sync"
    /\ Len(heap.lists[r_result_docs]) < Len(r_new_result_doc_list)
    /\ LET g == ref_next_group(heap, r_result_docs, r_new_result_doc_list)
       IN  \E out \in llm_outputs(llm, g, length_func.document_separator) :
               LET r == collapse_docs(g, out)
                   n == new_document(heap, r.value)
               IN  IF r.raised # ""
                   THEN pc' = "error" /\ err' = r.raised /\ UNCHANGED heap
                   ELSE /\ heap' = list_append(n.heap, r_result_docs, n.ref)
                        /\ UNCHANGED <<pc, err>>
    /\ UNCHANGED <<result_docs, num_tokens, _token_max, new_result_doc_list,
                   new_doc, rounds, split_calls, collapse_calls, split_log,
                   collapse_log, combine_log, output, r_docs, r_result_docs,
                   r_new_result_doc_list, inputVars, pipeVars, taskVars>>

\* The collapse capability raises (line 272): the round ends with the new
\* list partly filled.
RefCollapseForRaises ==
    /\ pc = "for"
    /\ mode = "ref_sync"
    /\ llm_raises(llm)
    /\ Len(heap.lists[r_result_docs]) < Len(r_new_result_doc_list)
    /\ pc' = "error"
    /\ err' = "CombineError"
    /\ UNCHANGED <<result_docs, num_tokens, _token_max, new_result_doc_list,
                   new_doc, rounds, split_calls, collapse_calls, split_log,
                   collapse_log, combine_log, output, heap, r_docs,
                   r_result_docs, r_new_result_doc_list, inputVars, pipeVars,
                   taskVars>>

\* Lines 516-517 and 304: _acollapse invokes the capability with the next
\* group and is suspended at the await.
RefACollapseCall ==
    /\ pc = "for"
    /\ mode = "ref_async"
    /\ Len(heap.lists[r_result_docs]) < Len(r_new_result_doc_list)
    /\ collapse_log' =
          <<ref_next_group(heap, r_result_docs, r_new_result_doc_list)>>
    /\ pc' = "await"
    /\ UNCHANGED <<err, result_docs, num_tokens, _token_max,
                   new_result_doc_list, new_doc, rounds, split_calls,
                   collapse_calls, split_log, combine_log, output, heap,
                   r_docs, r_result_docs, r_new_result_doc_list, inputVars,
                   pipeVars, taskVars>>

\* While _acollapse is suspended at the await of line 304, another task
\* writes one of the documents of the caller's list: a value of its
\* metadata dict, or its page_content.
RefOtherTaskWrites ==
    /\ pc = "await"
    /\ mode = "ref_async"
    /\ other_task_may_write(docs, deref_list(heap, r_docs))
    /\ \E i \in 1..Len(heap.lists[r_docs]) :
           LET d == heap.lists[r_docs][i]
               dict == heap.docs[d].metadata
           IN  \/ \E k \in DOMAIN heap.dicts[dict] :
                  \E val \in OtherTaskValues :
                      /\ heap.dicts[dict][k] # val
                      /\ heap' = [heap EXCEPT !.dicts[dict][k] = val]
               \/ \E c \in OtherTaskContents :
                      /\ heap.docs[d].page_content # c
                      /\ heap' = [heap EXCEPT !.docs[d].page_content = c]
    /\ UNCHANGED <<pc, err, result_docs, num_tokens, _token_max,
                   new_result_doc_list, new_doc, rounds, split_calls,
                   collapse_calls, split_log, collapse_log, combine_log,
                   output, r_docs, r_result_docs, r_new_result_doc_list,
                   inputVars, pipeVars, taskVars>>

\* The await of line 304 returns: lines 305-312 merge the metadata dicts
\* of the group as they are now into a new dict and a new Document, which
\* line 518 appends to the list that result_docs names.
RefACollapseFor ==
    /\ pc = "await"
    /\ mode = "ref_async"
    /\ LET g == ref_next_group(heap, r_result_docs, r_new_result_doc_list)
       IN  \E out \in llm_answers(llm, collapse_log[1], g,
                                  length_func.document_separator) :
               LET r == acollapse_docs(g, out)
                   n == new_document(heap, r.value)
               IN  IF r.raised # ""
                   THEN pc' = "error" /\ err' = r.raised /\ UNCHANGED heap
                   ELSE /\ heap' = list_append(n.heap, r_result_docs, n.ref)
                        /\ pc' = "for"
                        /\ UNCHANGED err
    /\ UNCHANGED <<result_docs, num_tokens, _token_max, new_result_doc_list,
                   new_doc, rounds, split_calls, collapse_calls, split_log,
                   collapse_log, combine_log, output, r_docs, r_result_docs,
                   r_new_result_doc_list, inputVars, pipeVars, taskVars>>

\* The await of line 304 raises when _acollapse is resumed.
RefACollapseForRaises ==
    /\ pc = "await"
    /\ mode = "ref_async"
    /\ llm_raises(llm)
    /\ pc' = "error"
    /\ err' = "CombineError"
    /\ UNCHANGED <<result_docs, num_tokens, _token_max, new_result_doc_list,
                   new_doc, rounds, split_calls, collapse_calls, split_log,
                   collapse_log, combine_log, output, heap, r_docs,
                   r_result_docs, r_new_result_doc_list, inputVars, pipeVars,
                   taskVars>>

\* Lines 491 and 519
RefCollapseMeasure ==
    /\ pc = "for"
    /\ RefMode
    /\ Len(heap.lists[r_result_docs]) = Len(r_new_result_doc_list)
    /\ num_tokens' = call_length_func(length_func,
                                      deref_list(heap, r_result_docs))
    /\ rounds' = rounds + 1
    /\ pc' = "while"
    /\ UNCHANGED <<err, result_docs, _token_max, new_result_doc_list, new_doc,
                   split_calls, collapse_calls, split_log, collapse_log,
                   combine_log, output, heap, r_docs, r_result_docs,
                   r_new_result_doc_list, inputVars, pipeVars, taskVars>>

\* Lines 483, 492 and 511, 520: the reference result_docs is returned.
RefCollapseReturn ==
    /\ pc = "while"
    /\ RefMode
    /\ ~while_cond(num_tokens, _token_max)
    /\ pc' = "collapsed"
    /\ UNCHANGED <<err, result_docs, num_tokens, _token_max,
                   new_result_doc_list, new_doc, rounds, split_calls,
                   collapse_calls, split_log, collapse_log, combine_log,
                   output, heap, r_docs, r_result_docs, r_new_result_doc_list,
                   inputVars, pipeVars, taskVars>>

\* ------------------------------------------ reduce_docs.map() on references
\* partition_and_reduce (lines 140-142) on a list object: partition_docs
\* gives every partition an input dict of its own (line 139) and
\* reduce_docs.map() runs one invocation of reduce_docs per partition, the
\* invocations side by side; in each, RunnableParallel (lines 124-127) runs
\* reduce_content and _combine_metadata side by side and _dict_to_document
\* makes the Document.  An invocation is a record: its documents (by
\* reference), how far reduce_content is and what it read and answered,
\* the dict that _combine_metadata is filling and how many documents it has
\* merged, and the Document made.

\* The heaps of the callers: each document an object of its own with a dict
\* of its own, or the last entry of the list being the Document object of an
\* earlier entry, or the last document having the dict object of an earlier
\* document as its metadata.
heaps_of_caller(ds) ==
    LET h == heap_of_caller(ds)
        last == Len(ds)
    IN  {h} \cup {[h EXCEPT !.lists[1][last] = i] : i \in 1..(last - 1)}
            \cup {[h EXCEPT !.docs[last].metadata = i] : i \in 1..(last - 1)}

\* An address is only the name of an object: invocation i makes its dict and
\* its Document at the i-th address after the caller's objects, in whatever
\* order the invocations run, so that runs that differ only in the names of
\* the objects made are one run.  Until an object is made its cell is free.
with_free_cells(h, n) ==
    [h EXCEPT !.dicts = @ \o [i \in 1..n |-> EmptyMeta],
              !.docs = @ \o [i \in 1..n |->
                                [page_content |-> <<>>, metadata |-> 0]]]
address_of(h, invs, i) == Len(h.dicts) - Len(invs) + i

\* partition_docs, lines 129-139, and the start of reduce_docs.map(), line
\* 142: the list is split and every partition becomes an invocation; the
\* ValueError of split_list_of_docs leaves the pipeline.
MapPartitionDocs ==
    /\ p_pc = "call"
    /\ mode = "map"
    /\ LET r == ref_split_list_of_docs(heap, r_docs, length_func, token_max.v)
       IN  IF r.raised # ""
           THEN /\ p_pc' = "error"
                /\ p_err' = r.raised
                /\ UNCHANGED <<heap, invocations>>
           ELSE /\ p_pc' = "map"
                /\ heap' = with_free_cells(heap, Len(r.value))
                /\ invocations' =
                      [i \in 1..Len(r.value) |->
                          [docs |-> r.value[i], content |-> "idle",
                           read |-> <<>>, page_content |-> <<>>,
                           metadata |-> 0, merged |-> 0, result |-> 0]]
                /\ UNCHANGED p_err
    /\ UNCHANGED <<inputVars, legacyVars, p_context, p_partitions, p_reduced,
                   p_rounds, p_collapse_calls, p_split_log, p_collapse_log,
                   p_output, r_docs, r_result_docs, r_new_result_doc_list,
                   sync_run, other_task_wrote, map_output>>

\* reduce_content, lines 114-121: format_document_inputs reads the
\* documents of the invocation and the capability is called with the text.
ReduceContentCall ==
    /\ p_pc = "map"
    /\ mode = "map"
    /\ \E i \in 1..Len(invocations) :
          /\ invocations[i].content = "idle"
          /\ invocations' =
                [invocations EXCEPT
                    ![i].content = "called",
                    ![i].read = deref_docs(heap, invocations[i].docs)]
    /\ UNCHANGED <<inputVars, legacyVars, pipeVars, refVars, sync_run,
                   other_task_wrote, map_output>>

\* The capability answers and StrOutputParser gives the page_content, line
\* 121.
ReduceContentAnswer ==
    /\ p_pc = "map"
    /\ mode = "map"
    /\ \E i \in 1..Len(invocations) :
          /\ invocations[i].content = "called"
          /\ \E out \in llm_outputs(llm, invocations[i].read,
                                    length_func.document_separator) :
                invocations' = [invocations EXCEPT ![i].content = "done",
                                                   ![i].page_content = out]
    /\ UNCHANGED <<inputVars, legacyVars, pipeVars, refVars, sync_run,
                   other_task_wrote, map_output>>

\* Mutant: combined_metadata is the first document's own dict, stringified
\* in place, instead of a new dict.
shared_combined_metadata(h, d, at) ==
    LET dict == h.docs[d].metadata
    IN  [heap |-> [h EXCEPT !.dicts[dict] =
                      [k \in DOMAIN h.dicts[dict] |->
                          StrV(str(h.dicts[dict][k]))]],
         ref |-> dict]

\* combined_metadata = {k: str(v) for k, v in docs[0].metadata.items()},
\* line 175: a new dict object, made at the address at.
new_combined_metadata(h, d, at) ==
    LET dict == h.docs[d].metadata
    IN  [heap |-> [h EXCEPT !.dicts[at] =
                      [k \in DOMAIN h.dicts[dict] |->
                          StrV(str(h.dicts[dict][k]))]],
         ref |-> at]

\* _combine_metadata starts, lines 174-175.
CombineMetadataStart ==
    /\ p_pc = "map"
    /\ mode = "map"
    /\ \E i \in 1..Len(invocations) :
          /\ invocations[i].merged = 0
          /\ LET n == new_combined_metadata(heap, invocations[i].docs[1],
                                            address_of(heap, invocations, i))
             IN  /\ heap' = n.heap
                 /\ invocations' = [invocations EXCEPT ![i].metadata = n.ref,
                                                       ![i].merged = 1]
    /\ UNCHANGED <<inputVars, legacyVars, pipeVars, r_docs, r_result_docs,
                   r_new_result_doc_list, sync_run, other_task_wrote,
                   map_output>>

\* One iteration of for doc in docs[1:], lines 176-181: the items of the
\* next document are folded into combined_metadata.
CombineMetadataFor ==
    /\ p_pc = "map"
    /\ mode = "map"
    /\ \E i \in 1..Len(invocations) :
          /\ invocations[i].merged >= 1
          /\ invocations[i].merged < Len(invocations[i].docs)
          /\ LET d == invocations[i].docs[invocations[i].merged + 1]
                 metadata == heap.dicts[heap.docs[d].metadata]
             IN  /\ heap' = [heap EXCEPT
                                !.dicts[invocations[i].metadata] =
                                    _combine_metadata_items(@, metadata)]
                 /\ invocations' = [invocations EXCEPT ![i].merged = @ + 1]
    /\ UNCHANGED <<inputVars, legacyVars, pipeVars, r_docs, r_result_docs,
                   r_new_result_doc_list, sync_run, other_task_wrote,
                   map_output>>

\* Document(page_content=..., metadata=...), line 186: a new Document
\* object, made at the address at, that holds the answer and the dict.
new_document_of(h, page_content, dict, at) ==
    [heap |-> [h EXCEPT !.docs[at] = [page_content |-> page_content,
                                      metadata |-> dict]],
     ref |-> at]

\* Both branches of RunnableParallel have returned (line 182 for
\* _combine_metadata) and _dict_to_document makes the Document, lines
\* 127 and 185-186.
DictToDocument ==
    /\ p_pc = "map"
    /\ mode = "map"
    /\ \E i \in 1..Len(invocations) :
          /\ invocations[i].result = 0
          /\ invocations[i].content = "done"
          /\ invocations[i].merged = Len(invocations[i].docs)
          /\ LET n == new_document_of(heap, invocations[i].page_content,
                                      invocations[i].metadata,
                                      address_of(heap, invocations, i))
             IN  /\ heap' = n.heap
                 /\ invocations' = [invocations EXCEPT ![i].result = n.ref]
    /\ UNCHANGED <<inputVars, legacyVars, pipeVars, r_docs, r_result_docs,
                   r_new_result_doc_list, sync_run, other_task_wrote,
                   map_output>>

\* Every invocation has returned and reduce_docs.map() returns the list of
\* the results, in the order of the partitions, line 142.
MapReturn ==
    /\ p_pc = "map"
    /\ mode = "map"
    /\ \A i \in 1..Len(invocations) : invocations[i].result # 0
    /\ heap' = [heap EXCEPT !.lists =
                   Append(@, [i \in 1..Len(invocations) |->
                                 invocations[i].result])]
    /\ map_output' = Len(heap.lists) + 1
    /\ p_pc' = "returned"
    /\ UNCHANGED <<inputVars, legacyVars, p_err, p_context, p_partitions,
                   p_reduced, p_rounds, p_collapse_calls, p_split_log,
                   p_collapse_log, p_output, r_docs, r_result_docs,
                   r_new_result_doc_list, sync_run, other_task_wrote,
                   invocations>>

\* ------------------------------------- combine_docs next to acombine_docs
\* A run of combine_docs of its own, on the same documents, budget, length
\* function and capability as the run of acombine_docs beside it.  Its
\* frame holds the variables of _collapse (lines 466-492), the logs and
\* the counters.
FrameAtCall ==
    [pc |-> "call", err |-> "", result_docs |-> <<>>, num_tokens |-> None,
     _token_max |-> 0, new_result_doc_list |-> <<>>, rounds |-> 0,
     split_calls |-> 0, collapse_calls |-> 0, split_log |-> <<>>,
     collapse_log |-> <<>>, combine_log |-> <<>>, output |-> <<>>]

\* The two runs share no variable, so the order of their steps changes no
\* result; in the comparison they take turns round by round, combine_docs
\* first, so that they can be compared in every round.
SyncTurn == sync_run.rounds = rounds
AsyncTurn == rounds < sync_run.rounds \/ sync_run.pc \in {"done", "error"}

\* combine_docs calls _collapse (line 430); _collapse up to its loop, lines
\* 473-482.
SyncCollapseEnter ==
    /\ sync_run.pc = "call"
    /\ SyncTurn
    /\ sync_run' = [sync_run EXCEPT
                       !.result_docs = docs,
                       !.num_tokens = call_length_func(length_func, docs),
                       !._token_max = token_max_or(token_max,
                                                   token_max_default),
                       !.pc = "while"]
    /\ UNCHANGED <<inputVars, legacyVars, pipeVars, refVars, other_task_wrote,
                   invocations, map_output>>

\* The loop test of line 483 succeeds and the list is partitioned, lines
\* 484-487; the ValueError of split_list_of_docs leaves _collapse.
SyncCollapseSplit ==
    /\ sync_run.pc = "while"
    /\ SyncTurn
    /\ while_cond(sync_run.num_tokens, sync_run._token_max)
    /\ sync_run.rounds < MaxRounds
    /\ LET r == split_list_of_docs(sync_run.result_docs, length_func,
                                   sync_run._token_max)
           called == [sync_run EXCEPT
                         !.split_log = <<[docs |-> sync_run.result_docs,
                                          raised |-> r.raised,
                                          groups |-> r.value]>>,
                         !.split_calls = @ + 1,
                         !.collapse_log = <<>>]
       IN  sync_run' = IF r.raised # ""
                       THEN [called EXCEPT !.pc = "error", !.err = r.raised]
                       ELSE [called EXCEPT !.pc = "for",
                                           !.new_result_doc_list = r.value,
                                           !.result_docs = <<>>]
    /\ UNCHANGED <<inputVars, legacyVars, pipeVars, refVars, other_task_wrote,
                   invocations, map_output>>

\* One iteration of the for loop of lines 488-490: collapse_docs calls the
\* capability with the next group (line 272), merges the metadata (lines
\* 273-279) and the new document is appended (line 489).
SyncCollapseFor ==
    /\ sync_run.pc = "for"
    /\ SyncTurn
    /\ Len(sync_run.result_docs) < Len(sync_run.new_result_doc_list)
    /\ LET g == sync_run.new_result_doc_list[Len(sync_run.result_docs) + 1]
           called == [sync_run EXCEPT !.collapse_log = Append(@, g),
                                      !.collapse_calls = @ + 1]
       IN  \E out \in llm_outputs(llm, g, length_func.document_separator) :
               LET r == collapse_docs(g, out)
               IN  sync_run' =
                       IF r.raised # ""
                       THEN [called EXCEPT !.pc = "error", !.err = r.raised]
                       ELSE [called EXCEPT !.result_docs = Append(@, r.value)]
    /\ UNCHANGED <<inputVars, legacyVars, pipeVars, refVars, other_task_wrote,
                   invocations, map_output>>

\* The list of the round is measured, line 491.
SyncCollapseMeasure ==
    /\ sync_run.pc = "for"
    /\ SyncTurn
    /\ Len(sync_run.result_docs) = Len(sync_run.new_result_doc_list)
    /\ sync_run' = [sync_run EXCEPT
                       !.num_tokens = call_length_func(length_func,
                                                       sync_run.result_docs),
                       !.rounds = @ + 1,
                       !.pc = "while"]
    /\ UNCHANGED <<inputVars, legacyVars, pipeVars, refVars, other_task_wrote,
                   invocations, map_output>>

\* The loop test of line 483 fails and _collapse returns result_docs, line
\* 492.
SyncCollapseReturn ==
    /\ sync_run.pc = "while"
    /\ SyncTurn
    /\ ~while_cond(sync_run.num_tokens, sync_run._token_max)
    /\ sync_run' = [sync_run EXCEPT !.pc = "collapsed"]
    /\ UNCHANGED <<inputVars, legacyVars, pipeVars, refVars, other_task_wrote,
                   invocations, map_output>>

\* combine_docs returns the answer of the final combine capability for the
\* collapsed list, lines 433-435.
SyncFinalCombine ==
    /\ sync_run.pc = "collapsed"
    /\ SyncTurn
    /\ LET arg == final_docs(docs, sync_run.result_docs)
       IN  \E out \in llm_outputs(llm, arg, length_func.document_separator) :
               sync_run' = [sync_run EXCEPT
                               !.output = out,
                               !.combine_log =
                                   Append(@, [docs |-> arg, returned |-> out,
                                              after |-> sync_run.collapse_calls]),
                               !.pc = "done"]
    /\ UNCHANGED <<inputVars, legacyVars, pipeVars, refVars, other_task_wrote,
                   invocations, map_output>>

\* ----------------------------------------------------------- specifications
\* combine_docs, acombine_docs and the pipeline, each run on its own.  The
\* pipeline whose capability may give either answer counts with len and
\* joins with the empty separator.
Init ==
    /\ docs \in DocLists
    /\ llm \in {"any", "echo"}
    /\ mode \in {"sync", "async", "pipeline"}
    /\ IF mode = "pipeline"
       THEN /\ token_max \in TokenMaxArgs \ {None}
            /\ length_func \in
                   {lf \in DocsLens :
                       llm = "any" => /\ lf.token_len_func = "len"
                                      /\ lf.document_separator = <<>>}
       ELSE token_max \in TokenMaxArgs /\ length_func \in PromptLengths
    /\ observe = TRUE
    /\ InitLegacyVars
    /\ InitPipeVars
    /\ InitRefVars
    /\ InitTaskVars

Next ==
    \/ CollapseEnter
    \/ CollapseSplit
    \/ CollapseFor
    \/ ACollapseCall
    \/ ACollapseFor
    \/ CollapseMeasure
    \/ CollapseReturn
    \/ FinalCombine
    \/ AFinalCombineCall
    \/ AFinalCombine
    \/ PipeInvoke
    \/ CollapseLoopStep
    \/ CollapseLoopReturn
    \/ PartitionDocs
    \/ ReduceDocsCall
    \/ ReduceDocs
    \/ AssignContext

Spec == Init /\ [][Next]_vars

\* The same runs without logs or counters, in which the interpreter always
\* takes its next step.
InitLive ==
    /\ docs \in DocLists
    /\ llm \in {"any", "echo"}
    /\ mode \in {"sync", "async", "pipeline"}
    /\ IF mode = "pipeline"
       THEN /\ token_max \in TokenMaxArgs \ {None}
            /\ length_func \in
                   {lf \in DocsLens :
                       llm = "any" => /\ lf.token_len_func = "len"
                                      /\ lf.document_separator = <<>>}
       ELSE token_max \in TokenMaxArgs /\ length_func \in PromptLengths
    /\ observe = FALSE
    /\ InitLegacyVars
    /\ InitPipeVars
    /\ InitRefVars
    /\ InitTaskVars

FairSpec == InitLive /\ [][Next]_vars /\ WF_vars(Next)

\* _collapse and the pipeline side by side on the same documents, budget,
\* separator and deterministic capability.
InitEq ==
    /\ docs \in DocLists
    /\ llm \in LLMKinds
    /\ mode = "both"
    /\ token_max \in TokenMaxArgs \ {None}
    /\ length_func \in {lf \in PromptLengths : lf.has_length}
    /\ observe = TRUE
    /\ InitLegacyVars
    /\ InitPipeVars
    /\ InitRefVars
    /\ InitTaskVars

\* The two runs share no variable, so the order of their steps changes no
\* result; in the comparison they take turns round by round, the legacy loop
\* first, so that they can be compared after every round.
LegacyTurn == rounds = p_rounds
PipeTurn == p_rounds < rounds \/ pc \in {"collapsed", "error"}

EqCollapseEnter == LegacyTurn /\ CollapseEnter
EqCollapseSplit == LegacyTurn /\ CollapseSplit
EqCollapseFor == LegacyTurn /\ CollapseFor
EqCollapseMeasure == LegacyTurn /\ CollapseMeasure
EqCollapseReturn == LegacyTurn /\ CollapseReturn
EqPipeInvoke == PipeTurn /\ PipeInvoke
EqCollapseLoopStep == PipeTurn /\ CollapseLoopStep
EqCollapseLoopReturn == PipeTurn /\ CollapseLoopReturn
EqPartitionDocs == PipeTurn /\ PartitionDocs
EqReduceDocsCall == PipeTurn /\ ReduceDocsCall
EqReduceDocs == PipeTurn /\ ReduceDocs
EqAssignContext == PipeTurn /\ AssignContext

NextEq ==
    \/ EqCollapseEnter
    \/ EqCollapseSplit
    \/ EqCollapseFor
    \/ EqCollapseMeasure
    \/ EqCollapseReturn
    \/ EqPipeInvoke
    \/ EqCollapseLoopStep
    \/ EqCollapseLoopReturn
    \/ EqPartitionDocs
    \/ EqReduceDocsCall
    \/ EqReduceDocs
    \/ EqAssignContext

SpecEq == InitEq /\ [][NextEq]_vars

\* split_list_of_docs on every drawn list, length function and budget
InitSplit ==
    /\ docs \in DocLists
    /\ llm = "short"
    /\ mode = "split_list_of_docs"
    /\ token_max = None
    /\ length_func \in PromptLengths \cup DocsLens
    /\ observe = TRUE
    /\ pc = "split_call"
    /\ err = ""
    /\ result_docs = <<>>
    /\ num_tokens = None
    /\ _token_max \in 1..MaxTokenMax
    /\ new_result_doc_list = <<>>
    /\ new_doc = Raise("")
    /\ rounds = 0
    /\ split_calls = 0
    /\ collapse_calls = 0
    /\ split_log = <<>>
    /\ collapse_log = <<>>
    /\ combine_log = <<>>
    /\ output = <<>>
    /\ InitPipeVars
    /\ InitRefVars
    /\ InitTaskVars

SpecSplit == InitSplit /\ [][SplitCall]_vars

\* the metadata merge of the three collapse functions on every drawn group
InitMeta ==
    /\ docs \in SeqsUpTo(MetaDocs, MaxGroup)
    /\ llm = "short"
    /\ mode \in {"collapse_docs", "acollapse_docs", "_combine_metadata"}
    /\ token_max = None
    /\ length_func \in {lf \in DocsLens : /\ lf.document_separator = <<>>
                                          /\ lf.token_len_func = "len"}
    /\ observe = TRUE
    /\ pc = "meta_call"
    /\ err = ""
    /\ result_docs = <<>>
    /\ num_tokens = None
    /\ _token_max = 0
    /\ new_result_doc_list = <<>>
    /\ new_doc = Raise("")
    /\ rounds = 0
    /\ split_calls = 0
    /\ collapse_calls = 0
    /\ split_log = <<>>
    /\ collapse_log = <<>>
    /\ combine_log = <<>>
    /\ output = <<>>
    /\ InitPipeVars
    /\ InitRefVars
    /\ InitTaskVars

NextMeta ==
    \/ CollapseDocsCall
    \/ ACollapseDocsCall
    \/ OtherTaskWritesArg
    \/ ACollapseDocsReturn
    \/ CombineMetadataCall

SpecMeta == InitMeta /\ [][NextMeta]_vars

\* combine_docs and acombine_docs with a capability that may raise at any
\* of its invocations
InitFail ==
    /\ docs \in DocLists
    /\ llm = "flaky"
    /\ mode \in {"sync", "async"}
    /\ token_max \in TokenMaxArgs
    /\ length_func \in {lf \in PromptLengths : lf.has_length}
    /\ observe = TRUE
    /\ InitLegacyVars
    /\ InitPipeVars
    /\ InitRefVars
    /\ InitTaskVars

NextFail ==
    \/ CollapseEnter
    \/ CollapseSplit
    \/ CollapseFor
    \/ ACollapseCall
    \/ ACollapseFor
    \/ CollapseForRaises
    \/ ACollapseForRaises
    \/ CollapseMeasure
    \/ CollapseReturn
    \/ FinalCombine
    \/ AFinalCombineCall
    \/ AFinalCombine
    \/ FinalCombineRaises
    \/ AFinalCombineRaises

SpecFail == InitFail /\ [][NextFail]_vars

\* every entry point: combine_docs, acombine_docs, the pipeline, and
\* split_list_of_docs called on its own
InitApi == Init \/ InitSplit

NextApi ==
    \/ CollapseEnter
    \/ CollapseSplit
    \/ CollapseFor
    \/ ACollapseCall
    \/ ACollapseFor
    \/ CollapseMeasure
    \/ CollapseReturn
    \/ FinalCombine
    \/ AFinalCombineCall
    \/ AFinalCombine
    \/ PipeInvoke
    \/ CollapseLoopStep
    \/ CollapseLoopReturn
    \/ PartitionDocs
    \/ ReduceDocsCall
    \/ ReduceDocs
    \/ AssignContext
    \/ SplitCall

SpecApi == InitApi /\ [][NextApi]_vars

\* _collapse and _acollapse on the caller's list object, with a collapse
\* capability that joins the contents, keeps the first one, or answers "s"
\* or raises
InitRef ==
    /\ docs \in DocLists
    /\ llm \in {"echo", "first", "flaky"}
    /\ mode \in {"ref_sync", "ref_async"}
    /\ token_max \in TokenMaxArgs
    /\ length_func \in {lf \in PromptLengths : lf.document_separator = <<>>}
    /\ observe = TRUE
    /\ InitLegacyVars
    /\ InitPipeVars
    /\ heap = heap_of_caller(docs)
    /\ r_docs = 1
    /\ r_result_docs = 0
    /\ r_new_result_doc_list = <<>>
    /\ InitTaskVars

NextRef ==
    \/ RefCollapseEnter
    \/ RefCollapseSplit
    \/ RefCollapseFor
    \/ RefCollapseForRaises
    \/ RefACollapseCall
    \/ RefOtherTaskWrites
    \/ RefACollapseFor
    \/ RefACollapseForRaises
    \/ RefCollapseMeasure
    \/ RefCollapseReturn

SpecRef == InitRef /\ [][NextRef]_vars

\* One round of partition_and_reduce on the list of a caller, the
\* invocations of reduce_docs and their branches interleaved in every way:
\* every list with the largest budget, and a single document with the
\* smallest, which raises when the document is longer.
InitMap ==
    /\ \E ds \in DocLists \ {<<>>} : heap \in heaps_of_caller(ds)
    /\ docs = deref_list(heap, 1)
    /\ llm = "echo"
    /\ mode = "map"
    /\ token_max \in {Some(1), Some(MaxTokenMax)}
    /\ token_max = Some(1) => Len(docs) = 1
    /\ length_func \in {lf \in DocsLens : /\ lf.document_separator = <<>>
                                          /\ lf.token_len_func = "len"}
    /\ observe = TRUE
    /\ InitLegacyVars
    /\ InitPipeVars
    /\ r_docs = 1
    /\ r_result_docs = 0
    /\ r_new_result_doc_list = <<>>
    /\ InitTaskVars

NextMap ==
    \/ MapPartitionDocs
    \/ ReduceContentCall
    \/ ReduceContentAnswer
    \/ CombineMetadataStart
    \/ CombineMetadataFor
    \/ DictToDocument
    \/ MapReturn

SpecMap == InitMap /\ [][NextMap]_vars

\* combine_docs and acombine_docs side by side on the same documents,
\* budget, length function and deterministic capability, acombine_docs in
\* an event loop with another task that may write the caller's documents
\* while it is suspended.
InitTasks ==
    /\ docs \in DocLists
    /\ llm \in LLMKinds
    /\ mode = "async"
    /\ token_max \in TokenMaxArgs
    /\ length_func \in {lf \in PromptLengths : lf.document_separator = <<>>}
    /\ observe = TRUE
    /\ InitLegacyVars
    /\ InitPipeVars
    /\ InitRefVars
    /\ sync_run = FrameAtCall
    /\ other_task_wrote = FALSE
    /\ invocations = <<>>
    /\ map_output = 0

TasksCollapseEnter == AsyncTurn /\ CollapseEnter
TasksCollapseSplit == AsyncTurn /\ CollapseSplit
TasksACollapseCall == AsyncTurn /\ ACollapseCall
TasksOtherTaskWrites == AsyncTurn /\ OtherTaskWrites
TasksACollapseFor == AsyncTurn /\ ACollapseFor
TasksCollapseMeasure == AsyncTurn /\ CollapseMeasure
TasksCollapseReturn == AsyncTurn /\ CollapseReturn
TasksAFinalCombineCall == AsyncTurn /\ AFinalCombineCall
TasksOtherTaskWritesFinal == AsyncTurn /\ OtherTaskWritesFinal
TasksAFinalCombine == AsyncTurn /\ AFinalCombine

NextTasks ==
    \/ SyncCollapseEnter
    \/ SyncCollapseSplit
    \/ SyncCollapseFor
    \/ SyncCollapseMeasure
    \/ SyncCollapseReturn
    \/ SyncFinalCombine
    \/ TasksCollapseEnter
    \/ TasksCollapseSplit
    \/ TasksACollapseCall
    \/ TasksOtherTaskWrites
    \/ TasksACollapseFor
    \/ TasksCollapseMeasure
    \/ TasksCollapseReturn
    \/ TasksAFinalCombineCall
    \/ TasksOtherTaskWritesFinal
    \/ TasksAFinalCombine

SpecTasks == InitTasks /\ [][NextTasks]_vars
\* ------------------------------------------------------------ claim helpers
RECURSIVE Concat(_)
Concat(groups) ==
    IF Len(groups) = 0 THEN <<>> ELSE Head(groups) \o Concat(Tail(groups))

\* The budget and the length function a run works with, from its inputs.
ActiveTokenMax ==
    IF mode = "pipeline" THEN token_max.v
    ELSE token_max_or(token_max, token_max_default)

ActiveLength(ds) ==
    IF mode = "pipeline" THEN _docs_len(ds, length_func.token_len_func,
                 length_func.document_separator)
    ELSE call_length_func(length_func, ds)

OverBudget(ds, tm) ==
    LET n == ActiveLength(ds) IN (~n.is_none) /\ n.v > tm

HasOversizeDoc(ds, tm) == \E j \in 1..Len(ds) : OverBudget(<<ds[j]>>, tm)

BagOfLog(log) ==
    [g \in {log[i] : i \in DOMAIN log} |->
        Cardinality({i \in DOMAIN log : log[i] = g})]

\* ------------------------------------------------------------------ claims
\* C1: whenever split_list_of_docs returns, the returned groups concatenated
\* in order are exactly the input list.
C1_PartitionCoverage ==
    (pc = "split_return" /\ err = "") => Concat(new_result_doc_list) = docs

C1_Witness ==
    /\ pc = "split_return"
    /\ err = ""
    /\ Len(docs) = 3
    /\ Len(new_result_doc_list) = 2
    /\ Len(new_result_doc_list[1]) = 2
    /\ Concat(new_result_doc_list) = docs

\* C2 (as claimed): every group that split_list_of_docs returns costs at most
\* token_max.
C2_GroupsWithinBudget ==
    (pc = "split_return" /\ err = "" /\ length_func.has_length) =>
        \A i \in 1..Len(new_result_doc_list) :
            call_length_func(length_func, new_result_doc_list[i]).v <= _token_max

\* C3 (as claimed): a working sequence that holds a document whose cost alone
\* exceeds the budget, at any position, makes the partitioner raise and the
\* reduction end with that error.
C3_OversizeAlwaysRaises ==
    \A i \in 1..Len(split_log) :
        HasOversizeDoc(split_log[i].docs, _token_max) =>
            split_log[i].raised = "ValueError"

\* C4 (as claimed): when no input document alone exceeds the budget the
\* reduction loop finishes, by returning or by raising.
C4_Finished ==
    \/ (LegacyMode /\ pc \in {"collapsed", "done", "error"})
    \/ (mode = "pipeline" /\ p_pc \in {"returned", "error"})

C4_Terminates == (~HasOversizeDoc(docs, ActiveTokenMax)) => <>C4_Finished

\* C5 (amended): when the collapse phase returns normally the returned list
\* costs at most the active budget or, in the legacy chain, the length
\* function has no answer (None), and then the list returned is the input
\* list, after no round; the final combine gets only such a list.
C5_BudgetOrNoLength ==
    /\ (LegacyMode /\ pc \in {"collapsed", "done"}) =>
          LET n == call_length_func(length_func, result_docs)
          IN  \/ n.v <= _token_max /\ ~n.is_none
              \/ n.is_none /\ result_docs = docs /\ rounds = 0
    /\ (mode = "pipeline" /\ p_pc = "returned") =>
          _docs_len(p_output, length_func.token_len_func,
                 length_func.document_separator).v <= token_max.v
    /\ \A i \in 1..Len(combine_log) :
          LET n == call_length_func(length_func, combine_log[i].docs)
          IN  n.is_none \/ n.v <= _token_max

C5_Witness ==
    /\ mode = "sync"
    /\ pc = "collapsed"
    /\ rounds = 2
    /\ call_length_func(length_func, docs).v > _token_max
    /\ call_length_func(length_func, result_docs).v <= _token_max

\* C5 (as claimed): the returned list always has a cost, and it is at most
\* token_max.
C5_BudgetPostcondition ==
    (LegacyMode /\ pc \in {"collapsed", "done"}) =>
        LET n == call_length_func(length_func, result_docs)
        IN  (~n.is_none) /\ n.v <= _token_max

\* C6: a run of combine_docs / acombine_docs that completes has invoked the
\* final combine capability exactly once, after every collapse invocation, on
\* the final reduced list, and returns what that invocation returned; before
\* the collapse phase has returned the final combine is not invoked, and
\* while acombine_docs awaits its answer it was invoked once, on the final
\* reduced list, and nothing is returned yet.
C6_FinalCombineOnce ==
    /\ pc \notin {"done", "final_await"} => combine_log = <<>>
    /\ pc = "final_await" =>
          /\ mode = "async"
          /\ Len(combine_log) = 1
          /\ combine_log[1].docs = result_docs
          /\ combine_log[1].after = collapse_calls
          /\ combine_log[1].returned = <<>>
          /\ output = <<>>
    /\ pc = "done" =>
          /\ Len(combine_log) = 1
          /\ combine_log[1].docs = result_docs
          /\ combine_log[1].after = collapse_calls
          /\ output = combine_log[1].returned
          /\ ~OverBudget(combine_log[1].docs, _token_max)
          /\ (rounds = 0 => result_docs = docs)
          /\ (rounds > 0 =>
                /\ split_calls = rounds
                /\ Len(result_docs) = Len(split_log[1].groups))

C6_Witness ==
    /\ pc = "done"
    /\ mode = "async"
    /\ rounds = 2
    /\ collapse_calls >= 4
    /\ Len(combine_log) = 1
    /\ combine_log[1].docs # docs

\* C7: an input whose cost is within the budget is never partitioned nor
\* collapsed, and the final combine is invoked once on the input list itself.
C7_AlreadyWithinBudget ==
    (LegacyMode /\ ~ActiveLength(docs).is_none
                /\ ActiveLength(docs).v <= ActiveTokenMax) =>
        /\ split_calls = 0
        /\ split_log = <<>>
        /\ collapse_calls = 0
        /\ collapse_log = <<>>
        /\ rounds = 0
        /\ pc \in {"call", "while", "collapsed", "final_await", "done"}
        /\ (pc \in {"final_await", "done"} =>
              /\ Len(combine_log) = 1
              /\ combine_log[1].docs = docs)

C7_Witness ==
    /\ pc = "done"
    /\ Len(docs) = 3
    /\ ActiveLength(docs).v = ActiveTokenMax
    /\ collapse_calls = 0
    /\ combine_log[1].docs = docs

\* C8: a single input document over the budget ends the reduction with the
\* single-document ValueError; neither the collapse capability nor the final
\* combine capability is invoked.
C8_SingleOversize ==
    (Len(docs) = 1 /\ OverBudget(docs, ActiveTokenMax)) =>
        /\ LegacyMode =>
              /\ pc \in {"call", "while", "error"}
              /\ (pc = "error" => err = "ValueError")
              /\ collapse_calls = 0
              /\ combine_log = <<>>
        /\ mode = "pipeline" =>
              /\ p_pc \in {"call", "collapse_loop", "partition_docs", "error"}
              /\ (p_pc = "error" => p_err = "ValueError")
              /\ p_collapse_calls = 0

C8_Witness ==
    /\ mode = "sync"
    /\ Len(docs) = 1
    /\ OverBudget(docs, ActiveTokenMax)
    /\ pc = "error"
    /\ err = "ValueError"
    /\ split_calls = 1
    /\ collapse_calls = 0

\* The values of key k among the documents that carry it, in document order,
\* each stringified, joined by ", ".
RECURSIVE JoinedValues(_, _, _)
JoinedValues(ds, k, i) ==
    IF i > Len(ds) THEN <<>>
    ELSE LET rest == JoinedValues(ds, k, i + 1)
         IN  IF k \notin DOMAIN ds[i].metadata THEN rest
             ELSE IF \E j \in (i + 1)..Len(ds) : k \in DOMAIN ds[j].metadata
             THEN str(ds[i].metadata[k]) \o <<",", " ">> \o rest
             ELSE str(ds[i].metadata[k])

\* C9: the metadata of the document made from a non-empty group has exactly
\* the union of the members' keys, and each value is the members' stringified
\* values of that key in document order joined by ", "; for one document it
\* is the stringified original.
C9_MetadataMerge ==
    (pc = "meta_return" /\ Len(docs) >= 1) =>
        /\ new_doc.raised = ""
        /\ DOMAIN new_doc.value.metadata =
              UNION {DOMAIN docs[i].metadata : i \in 1..Len(docs)}
        /\ \A k \in DOMAIN new_doc.value.metadata :
              new_doc.value.metadata[k] = StrV(JoinedValues(docs, k, 1))
        /\ Len(docs) = 1 =>
              \A k \in DOMAIN docs[1].metadata :
                  new_doc.value.metadata[k].s = str(docs[1].metadata[k])

C9_Witness ==
    /\ pc = "meta_return"
    /\ mode = "collapse_docs"
    /\ Len(docs) = 3
    /\ DOMAIN docs[1].metadata = {"source"}
    /\ DOMAIN docs[2].metadata = {"page"}
    /\ DOMAIN docs[3].metadata = {"source", "page"}
    /\ new_doc.raised = ""
    /\ new_doc.value.metadata["source"].s = <<"1", "2", ",", " ", "-", "3">>
    /\ new_doc.value.metadata["page"].s = <<"x", ",", " ", "1", "2">>

\* C10: on the same documents, budget, length function and deterministic
\* capability, _collapse and the pipeline are in the same state after the same
\* number of rounds (same partitions, same groups collapsed, same list), and
\* they end alike: the same returned list, or the same error.
C10_SameProgress ==
    /\ rounds = p_rounds
    /\ split_log = p_split_log
    /\ collapse_calls = p_collapse_calls
    /\ BagOfLog(collapse_log) = p_collapse_log

C10_LegacyPipelineEquivalent ==
    /\ (pc = "while" /\ p_pc = "collapse_loop" /\ rounds = p_rounds) =>
          /\ result_docs = p_context
          /\ C10_SameProgress
    /\ (pc \in {"collapsed", "error"} /\ p_pc \in {"returned", "error"}) =>
          /\ C10_SameProgress
          /\ (pc = "collapsed") = (p_pc = "returned")
          /\ (pc = "collapsed" => result_docs = p_output)
          /\ (pc = "error" => err = p_err)

C10_Witness ==
    /\ pc = "collapsed"
    /\ p_pc = "returned"
    /\ rounds = 1
    /\ p_rounds = 1
    /\ Len(docs) = 3
    /\ Len(split_log[1].groups) = 2
    /\ collapse_calls = 2
    /\ Len(result_docs) = 2
    /\ result_docs = p_output

\* A sequence that starts another one.
IsPrefix(a, b) == Len(a) <= Len(b) /\ SubSeq(b, 1, Len(a)) = a

\* The round that acombine_docs is in, is the latest round of combine_docs:
\* the same call of split_list_of_docs with the same groups.
C11_SameSplit ==
    /\ split_calls = sync_run.split_calls
    /\ split_log = sync_run.split_log

\* The two runs have completed the same rounds with the same calls.
C11_SameRounds ==
    /\ rounds = sync_run.rounds
    /\ C11_SameSplit
    /\ collapse_calls = sync_run.collapse_calls
    /\ collapse_log = sync_run.collapse_log
    /\ result_docs = sync_run.result_docs

\* C11: a run of combine_docs and a run of acombine_docs on the same
\* documents, budget, length function and deterministic capability, with no
\* other task writing the documents, go through the same rounds: in every
\* round the same partition, the same groups collapsed in the same order
\* into the same documents, the same measured cost; and they end alike,
\* with the same final combine call and output or with the same error in
\* the same round.
C11_SyncAsyncSameRuns ==
    (mode = "async" /\ sync_run.pc # "none" /\ ~other_task_wrote) =>
        /\ rounds <= sync_run.rounds
        /\ (pc = "while" /\ sync_run.pc = "while"
                /\ rounds = sync_run.rounds) =>
              /\ C11_SameRounds
              /\ num_tokens = sync_run.num_tokens
              /\ _token_max = sync_run._token_max
        /\ (pc \in {"for", "await"}) =>
              /\ sync_run.rounds = rounds + 1
              /\ C11_SameSplit
              /\ new_result_doc_list = sync_run.new_result_doc_list
              /\ IsPrefix(collapse_log, sync_run.collapse_log)
              /\ IsPrefix(result_docs, sync_run.result_docs)
              /\ collapse_calls + Len(sync_run.collapse_log)
                    = sync_run.collapse_calls + Len(collapse_log)
        /\ (pc \in {"collapsed", "final_await", "done"}) =>
              /\ sync_run.pc = "done"
              /\ C11_SameRounds
        /\ (pc = "final_await") =>
              /\ Len(combine_log) = 1
              /\ combine_log[1].docs = sync_run.combine_log[1].docs
              /\ combine_log[1].after = sync_run.combine_log[1].after
        /\ (pc = "done") =>
              /\ combine_log = sync_run.combine_log
              /\ output = sync_run.output
        /\ (pc = "error") =>
              /\ sync_run.pc = "error"
              /\ err = sync_run.err
              /\ C11_SameRounds

\* Both runs went through two rounds over three documents, with a group of
\* two documents in the last round, and returned the same output.
C11_Witness ==
    /\ mode = "async"
    /\ ~other_task_wrote
    /\ pc = "done"
    /\ sync_run.pc = "done"
    /\ rounds = 2
    /\ sync_run.rounds = 2
    /\ Len(docs) = 3
    /\ \E i \in 1..Len(split_log[1].groups) : Len(split_log[1].groups[i]) = 2
    /\ output = sync_run.output

\* Both runs end in the ValueError of split_list_of_docs.
C11_WitnessError ==
    /\ mode = "async"
    /\ ~other_task_wrote
    /\ pc = "error"
    /\ sync_run.pc = "error"
    /\ err = "ValueError"
    /\ sync_run.err = "ValueError"
    /\ Len(docs) = 3
    /\ split_log = sync_run.split_log

\* Another task wrote a document while acombine_docs was suspended, and the
\* run of acombine_docs ends with documents that combine_docs does not give.
C11_WitnessOtherTask ==
    /\ mode = "async"
    /\ other_task_wrote
    /\ pc = "done"
    /\ sync_run.pc = "done"
    /\ rounds = 1
    /\ sync_run.rounds = 1
    /\ result_docs # sync_run.result_docs

\* C12: a failed collapse call ends the run with that failure: the failed
\* group was called once, it is the last call (no document was appended for
\* it, no later group was started) and the final combine is not invoked; a
\* failed final combine ends the run with that failure and returns nothing;
\* no step follows an error.
C12_InLoopBody ==
    \/ pc \in {"for", "await"}
    \/ (pc = "error" /\ err = "CombineError" /\ combine_log = <<>>)

C12_FailurePropagates ==
    /\ C12_InLoopBody =>
          /\ Len(collapse_log) <= Len(new_result_doc_list)
          /\ collapse_log = SubSeq(new_result_doc_list, 1, Len(collapse_log))
          /\ Len(collapse_log) =
                Len(result_docs) + (IF pc \in {"error", "await"} THEN 1 ELSE 0)
    /\ pc = "error" =>
          /\ err \in {"ValueError", "CombineError"}
          /\ output = <<>>
          /\ ~ENABLED NextFail
    /\ (pc = "error" /\ combine_log # <<>>) =>
          /\ err = "CombineError"
          /\ Len(combine_log) = 1
          /\ combine_log[1].docs = result_docs
          /\ combine_log[1].after = collapse_calls
    /\ pc = "done" => Len(combine_log) = 1

C12_Witness ==
    /\ mode = "sync"
    /\ pc = "error"
    /\ err = "CombineError"
    /\ rounds = 1
    /\ Len(new_result_doc_list) = 3
    /\ Len(result_docs) = 1
    /\ Len(collapse_log) = 2
    /\ combine_log = <<>>

\* C13 (as claimed): a round after which the loop goes on has strictly
\* fewer documents than it started with.
C13_RoundShrinksOrRaises ==
    /\ (LegacyMode /\ pc = "while" /\ rounds >= 1
                   /\ while_cond(num_tokens, _token_max)) =>
          Len(result_docs) < Len(split_log[1].docs)
    /\ (mode = "pipeline" /\ p_pc = "collapse_loop" /\ p_rounds >= 1
          /\ _docs_len(p_context, length_func.token_len_func,
                 length_func.document_separator).v > token_max.v) =>
          Len(p_context) < Len(p_split_log[1].docs)

\* C14: in a partition returned by split_list_of_docs every group but the
\* last, extended by the first document of the next group, costs more than
\* token_max.
C14_GreedyMaximal ==
    (pc = "split_return" /\ err = "") =>
        \A i \in 1..(Len(new_result_doc_list) - 1) :
            /\ Len(new_result_doc_list[i + 1]) >= 1
            /\ call_length_func(length_func,
                   Append(new_result_doc_list[i],
                          new_result_doc_list[i + 1][1])).v > _token_max

C14_Witness ==
    /\ pc = "split_return"
    /\ err = ""
    /\ Len(docs) = 3
    /\ Len(new_result_doc_list) = 2
    /\ Len(new_result_doc_list[1]) = 2
    /\ call_length_func(length_func, new_result_doc_list[1]).v = _token_max
    /\ call_length_func(length_func, SubSeq(docs, 1, 3)).v > _token_max

\* C15: a round invokes the collapse capability exactly once per group of
\* its partition, singleton groups included; the new list holds one document
\* per group, in group order, whose content is an answer of the capability
\* for that group; so the count after the round is the number of groups and
\* is at most the count before.
C15_OneCollapsePerGroup ==
    /\ (LegacyMode /\ pc = "for") =>
          collapse_log = SubSeq(new_result_doc_list, 1, Len(result_docs))
    /\ (LegacyMode /\ pc = "await") =>
          collapse_log = SubSeq(new_result_doc_list, 1, Len(result_docs) + 1)
    /\ (LegacyMode /\ pc \in {"while", "collapsed", "done"} /\ rounds >= 1) =>
          /\ collapse_log = new_result_doc_list
          /\ Len(result_docs) = Len(new_result_doc_list)
          /\ Len(result_docs) <= Len(split_log[1].docs)
          /\ \A i \in 1..Len(result_docs) :
                result_docs[i].page_content \in
                    llm_outputs(llm, new_result_doc_list[i],
                                length_func.document_separator)
    /\ (mode = "pipeline" /\ p_rounds >= 1
          /\ p_pc \in {"collapse_loop", "partition_docs", "returned"}) =>
          /\ p_collapse_log = BagOfLog(p_partitions)
          /\ Len(p_context) = Len(p_partitions)
          /\ Len(p_context) <= Len(p_split_log[1].docs)
          /\ \A i \in 1..Len(p_context) :
                p_context[i].page_content \in
                    llm_outputs(llm, p_partitions[i],
                                length_func.document_separator)

C15_Witness ==
    /\ mode = "sync"
    /\ llm = "any"
    /\ pc = "while"
    /\ rounds = 1
    /\ Len(new_result_doc_list) = 2
    /\ Len(new_result_doc_list[1]) = 2
    /\ Len(new_result_doc_list[2]) = 1
    /\ collapse_calls = 2
    /\ Len(result_docs) = 2
    /\ result_docs[2].page_content # new_result_doc_list[2][1].page_content

\* C16: the partition of a round is computed on exactly the list that the
\* round before left, after each of its groups was collapsed, and that list
\* is the one whose cost was measured; the cost is measured again only when
\* every group of the round is collapsed, on the full list of the round's
\* documents.  The same holds for partition_docs and the assignment of the
\* context in the pipeline.
C16_LegacyPartitionStep ==
    (LegacyMode /\ pc = "while" /\ pc' \in {"for", "error"}) =>
        /\ split_log'[1].docs = result_docs
        /\ num_tokens = call_length_func(length_func, result_docs)
        /\ (rounds = 0 => result_docs = docs)
        /\ (rounds >= 1 =>
              /\ Len(result_docs) = Len(new_result_doc_list)
              /\ collapse_log = new_result_doc_list)

C16_LegacyMeasureStep ==
    (LegacyMode /\ pc = "for" /\ pc' = "while") =>
        /\ Len(result_docs) = Len(new_result_doc_list)
        /\ collapse_log = new_result_doc_list
        /\ result_docs' = result_docs
        /\ num_tokens' = call_length_func(length_func, result_docs)

C16_PipePartitionStep ==
    (p_pc = "partition_docs" /\ p_pc' \in {"map", "error"}) =>
        /\ p_split_log'[1].docs = p_context
        /\ (p_rounds = 0 => p_context = docs)
        /\ (p_rounds >= 1 =>
              /\ Len(p_context) = Len(p_partitions)
              /\ \A i \in 1..Len(p_partitions) :
                    p_reduced[i].done /\ p_context[i] = p_reduced[i].doc)

C16_PipeAssignStep ==
    (p_pc = "map" /\ p_pc' = "collapse_loop") =>
        /\ \A i \in 1..Len(p_partitions) : p_reduced[i].done
        /\ p_context' = [i \in 1..Len(p_partitions) |-> p_reduced[i].doc]

C16_SequentialRounds ==
    [][/\ C16_LegacyPartitionStep
       /\ C16_LegacyMeasureStep
       /\ C16_PipePartitionStep
       /\ C16_PipeAssignStep]_vars

C16_Witness ==
    /\ mode = "sync"
    /\ pc = "for"
    /\ rounds = 1
    /\ Len(docs) = 3
    /\ Len(split_log[1].docs) = 2
    /\ \A i \in 1..2 : split_log[1].docs[i].metadata["source"].t = "str"
    /\ Len(new_result_doc_list) = 2
    /\ Len(result_docs) = 1

\* The documents of partition i as the caller passed them.
C17_Group(i) ==
    LET before == Len(docs_of_groups([j \in 1..(i - 1) |->
                                         invocations[j].docs]))
    IN  SubSeq(docs, before + 1, before + Len(invocations[i].docs))

\* What invocation i has read, answered, merged and made so far is what
\* the documents of partition i alone give.
C17_OfOwnGroup(i) ==
    LET inv == invocations[i]
        group == C17_Group(i)
        answer == llm_run(llm, group, length_func.document_separator)
    IN  /\ inv.content # "idle" => inv.read = group
        /\ inv.content = "done" => inv.page_content = answer
        /\ inv.merged >= 1 =>
              Ok(heap.dicts[inv.metadata]) =
                  _combine_metadata(SubSeq(group, 1, inv.merged))
        /\ inv.result # 0 =>
              Ok(deref_doc(heap, inv.result)) = collapse_docs(group, answer)

\* The dict and the Document of an invocation are objects that it made:
\* none of the caller's, and none of another invocation's.
C17_OwnObjects(i) ==
    LET inv == invocations[i]
    IN  /\ inv.metadata # 0 =>
              /\ inv.metadata > Len(docs)
              /\ \A j \in 1..Len(invocations) :
                    j # i => invocations[j].metadata # inv.metadata
        /\ inv.result # 0 =>
              /\ inv.result > Len(docs)
              /\ heap.docs[inv.result].metadata = inv.metadata
              /\ \A j \in 1..Len(invocations) :
                    j # i => invocations[j].result # inv.result

C17_Results ==
    /\ p_pc \in {"map", "returned"} =>
          \A i \in 1..Len(invocations) : C17_OfOwnGroup(i) /\ C17_OwnObjects(i)
    /\ p_pc = "returned" =>
          /\ map_output > 1
          /\ Len(heap.lists[map_output]) = Len(invocations)
          /\ \A i \in 1..Len(invocations) :
                Ok(deref_list(heap, map_output)[i]) =
                    collapse_docs(C17_Group(i),
                                  llm_run(llm, C17_Group(i),
                                          length_func.document_separator))

\* A step leaves the caller's list, documents and dicts as they are.
C17_InputsKept ==
    /\ heap'.lists[r_docs] = heap.lists[r_docs]
    /\ \A d \in 1..Len(docs) :
          /\ heap'.docs[d] = heap.docs[d]
          /\ heap'.dicts[d] = heap.dicts[d]

\* A step of one invocation leaves every other invocation, its dict and
\* its Document as they are.
C17_OthersKept ==
    \A i \in 1..Len(invocations) :
        (p_pc = "map" /\ p_pc' = "map" /\ invocations'[i] # invocations[i]) =>
            \A j \in 1..Len(invocations) :
                j # i =>
                    /\ invocations'[j] = invocations[j]
                    /\ invocations[j].metadata # 0 =>
                          heap'.dicts[invocations[j].metadata] =
                              heap.dicts[invocations[j].metadata]
                    /\ invocations[j].result # 0 =>
                          heap'.docs[invocations[j].result] =
                              heap.docs[invocations[j].result]

\* C17: while the invocations of reduce_docs for the partitions of a round
\* run side by side, their steps interleaved in every way and completing in
\* every order, each step leaves the caller's objects and the other
\* invocations' objects as they are, each invocation reads, merges and
\* returns what the documents of its own partition give, and the list that
\* map() returns holds, at position i, the collapse of partition i.
C17_ConcurrentCollapsesIndependent ==
    /\ [](mode = "map" => C17_Results)
    /\ [][mode = "map" => C17_InputsKept /\ C17_OthersKept]_vars

\* The second invocation has returned while the first, whose partition
\* shares a metadata dict with the second's, is between its steps; then
\* map() returns.
C17_Witness ==
    /\ mode = "map"
    /\ p_pc = "map"
    /\ Len(invocations) = 2
    /\ Len(invocations[1].docs) = 2
    /\ invocations[2].result # 0
    /\ invocations[1].content = "called"
    /\ invocations[1].merged = 1
    /\ heap.docs[invocations[2].docs[1]].metadata =
          heap.docs[invocations[1].docs[2]].metadata

C17_WitnessReturned ==
    /\ mode = "map"
    /\ p_pc = "returned"
    /\ Len(invocations) = 3
    /\ heap.lists[r_docs][3] = heap.lists[r_docs][1]
    /\ Len(heap.lists[map_output]) = 3

\* The metadata that the called function (collapse_docs, acollapse_docs or
\* _combine_metadata) gives for a group.
MergeBy(fn, ds) ==
    IF fn = "collapse_docs" THEN collapse_docs(ds, <<"s">>).value.metadata
    ELSE IF fn = "acollapse_docs" THEN acollapse_docs(ds, <<"s">>).value.metadata
    ELSE _combine_metadata(ds).value

\* The contiguous groups of ds from position start on, a group ending at
\* each position of cuts and at the end of ds.
RECURSIVE CutGroups(_, _, _)
CutGroups(ds, cuts, start) ==
    IF start > Len(ds) THEN <<>>
    ELSE LET ends == {c \in cuts : c >= start} \cup {Len(ds)}
             e == CHOOSE c \in ends : \A d \in ends : c <= d
         IN  <<SubSeq(ds, start, e)>> \o CutGroups(ds, cuts, e + 1)

\* The groups merged one by one, as a round does, and the merged documents
\* merged in order, as the next round does.
NestedMerge(fn, ds, cuts) ==
    LET groups == CutGroups(ds, cuts, 1)
    IN  MergeBy(fn, [i \in 1..Len(groups) |->
                       Document(<<"s">>, MergeBy(fn, groups[i]))])

\* C18: merging contiguous sub-groups and then the merged results gives the
\* same metadata mapping as merging the whole sequence in one pass, for
\* every way of cutting the sequence; with no cut this is the merge of one
\* already merged document, which returns its metadata unchanged.
C18_MergeAssociative ==
    (pc = "meta_return" /\ Len(docs) >= 1) =>
        /\ new_doc.raised = ""
        /\ new_doc.value.metadata = MergeBy(mode, docs)
        /\ \A cuts \in SUBSET (1..(Len(docs) - 1)) :
              NestedMerge(mode, docs, cuts) = new_doc.value.metadata

C18_Witness ==
    /\ pc = "meta_return"
    /\ mode = "_combine_metadata"
    /\ Len(docs) = 3
    /\ \A i \in 1..3 : "source" \in DOMAIN docs[i].metadata
    /\ docs[1].metadata["source"] = IntV(12)
    /\ docs[2].metadata["source"] = IntV(0 - 3)
    /\ docs[3].metadata["source"] = StrV(<<"x">>)
    /\ new_doc.value.metadata["source"].s =
          <<"1", "2", ",", " ", "-", "3", ",", " ", "x">>
    /\ NestedMerge(mode, docs, {2}) = new_doc.value.metadata
    /\ NestedMerge(mode, docs, {1, 2}) = new_doc.value.metadata

\* C19: split_list_of_docs on no documents raises nothing and returns one
\* group, the empty one; combine_docs / acombine_docs and the pipeline on
\* no documents run no round (no partition, no collapse call), and the final
\* combine is invoked once, on the empty list.
C19_EmptyInput ==
    /\ (mode = "split_list_of_docs" /\ pc = "split_return" /\ docs = <<>>) =>
          /\ err = ""
          /\ new_result_doc_list = << <<>> >>
    /\ (mode \in {"sync", "async"} /\ docs = <<>>) =>
          /\ pc \in {"call", "while", "collapsed", "final_await", "done"}
          /\ rounds = 0
          /\ split_calls = 0
          /\ collapse_calls = 0
          /\ (pc # "call" => result_docs = <<>>)
          /\ (pc \in {"final_await", "done"} =>
                /\ Len(combine_log) = 1
                /\ combine_log[1].docs = <<>>)
    /\ (mode = "pipeline" /\ docs = <<>>) =>
          /\ p_pc \in {"call", "collapse_loop", "returned"}
          /\ p_rounds = 0
          /\ p_collapse_calls = 0
          /\ p_output = <<>>

C19_Witness ==
    /\ mode = "sync"
    /\ docs = <<>>
    /\ pc = "done"
    /\ num_tokens = Some(0)
    /\ Len(combine_log) = 1
    /\ combine_log[1].docs = <<>>
    /\ collapse_calls = 0

\* C20: with a length function that returns numbers, split_list_of_docs
\* raises the single-document ValueError exactly when the first document
\* alone costs more than token_max; on every other input it returns without
\* error.
C20_FirstDocOversize ==
    Len(docs) >= 1 /\ call_length_func(length_func, <<docs[1]>>).v > _token_max

C20_RaisesIffFirstOversize ==
    (pc = "split_return" /\ length_func.has_length) =>
        /\ (err = "ValueError") = C20_FirstDocOversize
        /\ (~C20_FirstDocOversize => err = "")

C20_Witness ==
    /\ pc = "split_return"
    /\ err = ""
    /\ Len(docs) = 3
    /\ call_length_func(length_func, <<docs[1]>>).v <= _token_max
    /\ call_length_func(length_func, <<docs[2]>>).v > _token_max
    /\ Len(new_result_doc_list) = 3

\* A step leaves the caller's objects as they are: the caller's list
\* holds the same document objects in the same order, and each input
\* document has the content and the metadata it had.
C21_CallerObjectsKept ==
    /\ heap'.lists[r_docs] = heap.lists[r_docs]
    /\ \A i \in 1..Len(docs) :
           /\ heap'.docs[i] = heap.docs[i]
           /\ heap'.dicts[i] = heap.dicts[i]

\* Once a round has been partitioned, result_docs names a list other than
\* the caller's, and that list holds only Document objects and metadata
\* dicts made during the run.
C21_FreshResult ==
    r_new_result_doc_list # <<>> =>
        /\ r_result_docs # r_docs
        /\ \A j \in 1..Len(heap.lists[r_result_docs]) :
               LET d == heap.lists[r_result_docs][j]
               IN  d > Len(docs) /\ heap.docs[d].metadata > Len(docs)

\* C21: the reduction never modifies the caller's input.  Every step of a
\* run of _collapse or _acollapse, its calls of split_list_of_docs and of
\* collapse_docs / acollapse_docs included, whether the run goes on, returns
\* or ends with an error, leaves the caller's list with the same document
\* objects in the same order and each input document with the content and
\* the metadata it had; only a write of another task, made while _acollapse
\* is suspended, changes an input document.  Every round builds a new list
\* of new documents.
C21_CallerInputUnchanged ==
    [][RefMode =>
          /\ RefOtherTaskWrites \/ C21_CallerObjectsKept
          /\ C21_FreshResult']_vars

\* _collapse has returned after two rounds on three documents: the returned
\* list is not the caller's, and the caller's list still holds its three
\* documents.
C21_Witness ==
    /\ RefMode
    /\ pc = "collapsed"
    /\ rounds = 2
    /\ Len(docs) = 3
    /\ r_result_docs # r_docs
    /\ Len(heap.lists[r_docs]) = 3
    /\ deref_list(heap, r_docs) = docs

\* The runs that end with an error: the ValueError of split_list_of_docs
\* called on the caller's own list, and the collapse capability raising
\* with the round's list partly filled.
C21_WitnessSplitError ==
    /\ RefMode
    /\ pc = "error"
    /\ err = "ValueError"
    /\ r_result_docs = r_docs
    /\ Len(docs) = 3
    /\ deref_list(heap, r_docs) = docs

C21_WitnessCollapseError ==
    /\ RefMode
    /\ pc = "error"
    /\ err = "CombineError"
    /\ r_result_docs # r_docs
    /\ Len(heap.lists[r_result_docs]) = 1
    /\ Len(r_new_result_doc_list) = 2
    /\ deref_list(heap, r_docs) = docs

\* _acollapse has returned after another task wrote the metadata of the
\* first input document during an await: the merged metadata of the first
\* new document starts with the value written.
C21_WitnessOtherTask ==
    /\ mode = "ref_async"
    /\ pc = "collapsed"
    /\ Len(docs) = 3
    /\ heap.dicts[1]["source"] = IntV(9)
    /\ docs[1].metadata["source"] # IntV(9)
    /\ Len(r_new_result_doc_list[1]) = 2
    /\ LET d == heap.lists[r_result_docs][1]
       IN  heap.dicts[heap.docs[d].metadata]["source"].s[1] = "9"

====
